---- MODULE Spec2Model ----
(***************************************************************************)
(* vCenterHoundGo: the graph store (graph.GraphBuilder), the permission    *)
(* and membership resolvers (collector.Collector) and the identity sync    *)
(* step (postprocess.Processor.Run, vCenterNeo4j syncNodes).               *)
(*                                                                         *)
(* Representation.  A Go string is a sequence of one-character strings,    *)
(* "CORP" is <<"C","O","R","P">>, so that splitting, case folding, joining *)
(* and Sprintf are computed character by character.  A Go interface{}      *)
(* value is a tagged record [t |-> tag, v |-> payload] (VStr, VBool, VInt, *)
(* VStrs, VNilStrs, VNil).  A Go map is a record [isNil, kv] whose kv is a  *)
(* function from keys to values; the nil map is NilMap.                    *)
(***************************************************************************)
EXTENDS Integers, Sequences, FiniteSets, TLC

(***************************************************************************)
(* Characters and the Go string functions the program calls                *)
(***************************************************************************)

\* The printable ASCII characters in byte order; Ascii[i] has byte i + 31
\* (byte 96, the grave accent, is written "(96)").
Ascii ==
  << " ", "!", "\"", "#", "$", "%", "&", "'", "(", ")", "*", "+", ",", "-", ".", "/",
     "0", "1", "2", "3", "4", "5", "6", "7", "8", "9", ":", ";", "<", "=", ">", "?",
     "@", "A", "B", "C", "D", "E", "F", "G", "H", "I", "J", "K", "L", "M", "N", "O",
     "P", "Q", "R", "S", "T", "U", "V", "W", "X", "Y", "Z", "[", "\\", "]", "^", "_",
     "(96)", "a", "b", "c", "d", "e", "f", "g", "h", "i", "j", "k", "l", "m", "n", "o",
     "p", "q", "r", "s", "t", "u", "v", "w", "x", "y", "z", "{", "|", "}", "~" >>

\* The byte of a character.
ByteOf == [c \in { Ascii[i] : i \in 1..Len(Ascii) } |-> 31 + (CHOOSE i \in 1..Len(Ascii) : Ascii[i] = c)]

Ord(c) == ByteOf[c]

\* The character of a byte.
Chr(n) == Ascii[n - 31]

\* unicode.ToLower / unicode.ToUpper on one ASCII character.
ToLowerChar(c) == IF Ord(c) >= 65 /\ Ord(c) <= 90 THEN Chr(Ord(c) + 32) ELSE c

ToUpperChar(c) == IF Ord(c) >= 97 /\ Ord(c) <= 122 THEN Chr(Ord(c) - 32) ELSE c

\* strings.ToLower
ToLower(s) == [i \in 1..Len(s) |-> ToLowerChar(s[i])]

\* strings.ToUpper
ToUpper(s) == [i \in 1..Len(s) |-> ToUpperChar(s[i])]

\* strings.Contains(s, c) for a one-character separator c
Contains(s, c) == \E i \in 1..Len(s) : s[i] = c

\* strings.Index(s, c) for a one-character c, 1-based; 0 when absent
Index(s, c) ==
  IF Contains(s, c)
    THEN CHOOSE i \in 1..Len(s) : s[i] = c /\ \A j \in 1..(i - 1) : s[j] # c
    ELSE 0

\* strings.SplitN(s, c, 2): at most two parts, split at the first c
SplitN2(s, c) ==
  IF Contains(s, c)
    THEN << SubSeq(s, 1, Index(s, c) - 1), SubSeq(s, Index(s, c) + 1, Len(s)) >>
    ELSE << s >>

\* strings.Split(s, c): every part between occurrences of c
RECURSIVE Split(_, _)
Split(s, c) ==
  IF Contains(s, c)
    THEN << SubSeq(s, 1, Index(s, c) - 1) >> \o Split(SubSeq(s, Index(s, c) + 1, Len(s)), c)
    ELSE << s >>

\* strings.ReplaceAll(s, old, new) for one-character old and new
ReplaceAll(s, old, new) == [i \in 1..Len(s) |-> IF s[i] = old THEN new ELSE s[i]]

\* strings.Join(parts, sep)
RECURSIVE Join(_, _)
Join(parts, sep) ==
  IF parts = <<>> THEN <<>>
  ELSE IF Len(parts) = 1 THEN parts[1]
  ELSE parts[1] \o sep \o Join(Tail(parts), sep)

\* Go's string order (bytewise lexicographic), as sort.Strings uses it
RECURSIVE StrLess(_, _)
StrLess(a, b) ==
  IF a = <<>> THEN b # <<>>
  ELSE IF b = <<>> THEN FALSE
  ELSE IF a[1] = b[1] THEN StrLess(Tail(a), Tail(b))
  ELSE Ord(a[1]) < Ord(b[1])

\* Insertion of x into the sorted sequence of strings seq
RECURSIVE InsertSorted(_, _)
InsertSorted(x, seq) ==
  IF seq = <<>> THEN << x >>
  ELSE IF StrLess(seq[1], x) THEN << seq[1] >> \o InsertSorted(x, Tail(seq))
  ELSE << x >> \o seq

\* sort.Strings: the strings of seq in ascending order
RECURSIVE SortStrings(_)
SortStrings(seq) ==
  IF seq = <<>> THEN <<>> ELSE InsertSorted(seq[1], SortStrings(Tail(seq)))

\* strconv.Itoa / the %d verb
RECURSIVE Itoa(_)
Itoa(n) ==
  IF n < 0 THEN << "-" >> \o Itoa(0 - n)
  ELSE IF n < 10 THEN << Chr(48 + n) >>
  ELSE Itoa(n \div 10) \o << Chr(48 + (n % 10)) >>

\* The orders in which a range over a Go map with key set S may visit its keys
Orders(S) ==
  { o \in [1..Cardinality(S) -> S] : \A i, j \in 1..Cardinality(S) : i # j => o[i] # o[j] }

\* The elements of a sequence
Range(seq) == { seq[i] : i \in 1..Len(seq) }

(***************************************************************************)
(* interface{} values and the %v verb                                      *)
(***************************************************************************)

VStr(s) == [t |-> "string", v |-> s]

VBool(b) == [t |-> "bool", v |-> b]

VInt(n) == [t |-> "int", v |-> n]

\* a non-nil []string
VStrs(l) == [t |-> "[]string", v |-> l]

\* the nil []string
VNilStrs == [t |-> "nil []string", v |-> <<>>]

\* the nil interface value
VNil == [t |-> "nil", v |-> <<>>]

\* an int16, as the core counts of a cluster summary
VInt16(n) == [t |-> "int16", v |-> n]

\* a non-nil []interface{}
VList(l) == [t |-> "[]interface{}", v |-> l]

\* a map[string]interface{} held in an interface value; m is [isNil, kv]
VMap(m) == [t |-> "map[string]interface{}", v |-> m]

\* fmt.Sprintf("%v", val)
FormatV(val) ==
  CASE val.t = "string" -> val.v
    [] val.t = "int16" -> Itoa(val.v)
    [] val.t = "bool" -> IF val.v THEN <<"t","r","u","e">> ELSE <<"f","a","l","s","e">>
    [] val.t = "int" -> Itoa(val.v)
    [] val.t = "[]string" -> <<"[">> \o Join(val.v, <<" ">>) \o <<"]">>
    [] val.t = "nil []string" -> <<"[","]">>
    [] val.t = "nil" -> <<"<","n","i","l",">">>

\* A map[string]interface{}: isNil tells the nil map (which reads as empty and
\* panics when written) from an allocated one; kv holds the entries.
NilMap == [isNil |-> TRUE, kv |-> << >>]

\* map[string]interface{}{...} with the entries of the function f
MakeMap(f) == [isNil |-> FALSE, kv |-> f]

\* make(map[string]interface{})
EmptyMap == MakeMap(<< >>)

\* The keys a range over m visits
Keys(m) == DOMAIN m.kv

\* _, ok := m[k]
Has(m, k) == k \in DOMAIN m.kv

\* m[k] = v on an allocated map
Put(m, k, v) == [m EXCEPT !.kv = [x \in (DOMAIN m.kv) \cup {k} |-> IF x = k THEN v ELSE m.kv[x]]]

(***************************************************************************)
(* graph.GraphBuilder                                                      *)
(***************************************************************************)

VARIABLES
  NodesByID,      \* GraphBuilder.NodesByID: node id -> GraphNode
  Edges,          \* GraphBuilder.Edges: the edge list, in insertion order
  EdgeKeys,       \* GraphBuilder.EdgeKeys: the dedup keys seen (the keys mapped to true)
  panicked,       \* the process died of a run-time panic
  call,           \* the operation the last step performed, with its arguments
  nCalls,         \* operations performed so far
  suppliedKinds,  \* history: node id -> raw kinds any EnsureNode call supplied for it
  lastSupplied,   \* history: node id -> key -> value of the last EnsureNode call supplying the key
  edgeOrigins,    \* history: the raw kind argument of the AddEdge call that appended Edges[i]
  resolved,       \* history: every entity resolution [ref, retr, kind, id] made so far
  pureIn,         \* SpecPure: the string a pure function is applied to
  pureOut,        \* SpecPure: function name -> its result on pureIn, once applied
  available,      \* SpecSync: what the domain listing answers, [err, Data]
  graphData,      \* SpecSync: the nodes of the collected graph, in file order
  DomainMap,      \* SpecSync: Processor.DomainMap / domainMap, first label -> FQDN
  syncEdges,      \* SpecSync: the sync edges handed to the graph, in order
  syncTool,       \* SpecSync: the sync implementation that has run, or "none"
  zone,           \* SpecSign: time.Local, the process's offset from UTC in minutes
  signed,         \* SpecSign: history, one record per Client.Do call
  servers,        \* SpecMain: the entries of the -s argument, split at commas
  pos,            \* SpecMain: the entry of servers the collection loop is at
  connectors,     \* SpecMain: the hosts whose Collect returned no error, in order
  mergedGraph,    \* SpecMain: the combined store, [NodesByID, Edges]
  collected,      \* SpecMain: history, per visited host what Collect gave, [host, err, gb]
  exitCode,       \* SpecMain: "running", or the exit status of the process
  outFile,        \* SpecMain: the graph written to the output file, or NoFile
  logged,         \* SpecMain: the line main logged on ending, or "" while it runs
  authPerms,      \* SpecMember: the permission list the authorization manager returns
  userDirectory,  \* SpecMember: the user directory, [isNil, err, DomainList]
  selectedGroups, \* SpecMember: groupsWithPermissions, the group principals to query
  domains,        \* SpecMember: the domain list CollectGroupMemberships read
  pending,        \* SpecMember: the findMembers calls still to be made, in order
  issued,         \* SpecMember: history, the calls made, [q, err]
  memberPhase,    \* SpecMember: "permissions", "memberships", "querying" or "done"
  work,           \* SpecInfra: the calls of the traversal still to be made, next first
  visits,         \* SpecInfra: history, one record per RetrieveOne of the traversal
  infraPhase,     \* SpecInfra: "infrastructure", "permissions" or "done"
  permsLeft,      \* SpecInfra: the permissions still to be processed, in order
  syncOutput      \* SpecSync: how the sync tool ended, [err, file]

vars == << NodesByID, Edges, EdgeKeys, panicked, call, nCalls, suppliedKinds, lastSupplied,
           edgeOrigins, resolved, pureIn, pureOut, available, graphData, DomainMap,
           syncEdges, syncTool, zone, signed, servers, pos, connectors, mergedGraph,
           collected, exitCode, outFile, logged, authPerms, userDirectory, selectedGroups,
           domains, pending, issued, memberPhase, work, visits, infraPhase, permsLeft,
           syncOutput >>

\* The variables of the graph store, the parsers and the sync step
earlierVars == << NodesByID, Edges, EdgeKeys, panicked, call, nCalls, suppliedKinds,
                  lastSupplied, edgeOrigins, resolved, pureIn, pureOut, available,
                  graphData, DomainMap, syncEdges, syncTool >>

\* The variables of the BloodHound client
signVars == << zone, signed >>

\* The variables of the collection run
mainVars == << servers, pos, connectors, mergedGraph, collected, exitCode, outFile, logged >>

\* The variables of the membership collection
memberVars == << authPerms, userDirectory, selectedGroups, domains, pending, issued, memberPhase >>

\* The variables of the inventory traversal
infraVars == << work, visits, infraPhase, permsLeft >>

\* The variables the graph store, the parsers and the sync step leave alone
laterVars == << signVars, mainVars, memberVars, infraVars, syncOutput >>

NodePrefix == <<"v","C","e","n","t","e","r","_">>

EdgePrefix == <<"v","C","e","n","t","e","r","_">>

\* NodeTypeMap: every key is mapped to itself
NodeTypeMap ==
  LET names == { <<"v","C","e","n","t","e","r">>, <<"R","o","o","t","F","o","l","d","e","r">>, <<"D","a","t","a","c","e","n","t","e","r">>, <<"C","l","u","s","t","e","r">>, <<"E","S","X","i","H","o","s","t">>,
                 <<"R","e","s","o","u","r","c","e","P","o","o","l">>, <<"v","A","p","p">>, <<"V","M">>, <<"V","M","T","e","m","p","l","a","t","e">>, <<"D","a","t","a","s","t","o","r","e">>,
                 <<"D","a","t","a","s","t","o","r","e","C","l","u","s","t","e","r">>, <<"N","e","t","w","o","r","k">>, <<"S","t","a","n","d","a","r","d","P","o","r","t","g","r","o","u","p">>, <<"D","V","S","w","i","t","c","h">>,
                 <<"D","V","P","o","r","t","g","r","o","u","p">>, <<"P","r","i","n","c","i","p","a","l">>, <<"U","s","e","r">>, <<"G","r","o","u","p">>, <<"P","r","i","v","i","l","e","g","e">>,
                 <<"R","o","l","e">>, <<"F","o","l","d","e","r">>, <<"I","d","e","n","t","i","t","y","D","o","m","a","i","n">> }
  IN [k \in names |-> k]

EdgeTypeMap ==
  LET pairs == { << <<"C","O","N","T","A","I","N","S">>, <<"C","o","n","t","a","i","n","s">> >>,
                 << <<"H","O","S","T","S">>, <<"H","o","s","t","s">> >>,
                 << <<"H","A","S","_","P","E","R","M","I","S","S","I","O","N">>, <<"H","a","s","P","e","r","m","i","s","s","i","o","n">> >>,
                 << <<"M","E","M","B","E","R","_","O","F">>, <<"M","e","m","b","e","r","O","f">> >>,
                 << <<"U","S","E","S","_","D","A","T","A","S","T","O","R","E">>, <<"U","s","e","s","D","a","t","a","s","t","o","r","e">> >>,
                 << <<"U","S","E","S","_","N","E","T","W","O","R","K">>, <<"U","s","e","s","N","e","t","w","o","r","k">> >>,
                 << <<"H","A","S","_","D","A","T","A","S","T","O","R","E">>, <<"H","a","s","D","a","t","a","s","t","o","r","e">> >>,
                 << <<"H","A","S","_","N","E","T","W","O","R","K">>, <<"H","a","s","N","e","t","w","o","r","k">> >>,
                 << <<"M","O","U","N","T","S">>, <<"M","o","u","n","t","s">> >>,
                 << <<"H","A","S","_","P","R","I","V","I","L","E","G","E">>, <<"H","a","s","P","r","i","v","i","l","e","g","e">> >> }
  IN [k \in { p[1] : p \in pairs } |-> (CHOOSE p \in pairs : p[1] = k)[2]]

FormatNodeKind(kind) ==
  LET mapped == IF kind \in DOMAIN NodeTypeMap THEN NodeTypeMap[kind] ELSE kind
      cleaned == ReplaceAll(ReplaceAll(ReplaceAll(mapped, ".", "_"), "-", "_"), " ", "_")
  IN IF NodePrefix # <<>> THEN NodePrefix \o cleaned ELSE cleaned

FormatEdgeKind(kind) ==
  LET mapped == IF kind \in DOMAIN EdgeTypeMap THEN EdgeTypeMap[kind] ELSE kind
  IN IF EdgePrefix # <<>> THEN EdgePrefix \o mapped ELSE mapped

\* propsToKey without the sort: the parts are joined in iteration order
propsToKey_unsorted(props, order) ==
  IF Cardinality(Keys(props)) = 0 THEN <<>>
  ELSE Join([i \in 1..Len(order) |-> order[i] \o <<":">> \o FormatV(props.kv[order[i]])], <<"|">>)

\* propsToKey without the values: the sorted property names are joined
propsToKey_namesOnly(props, order) ==
  IF Cardinality(Keys(props)) = 0 THEN <<>>
  ELSE Join(SortStrings(order), <<"|">>)

\* propsToKey: order is the order in which the range over props visited its keys
propsToKey(props, order) ==
  IF Cardinality(Keys(props)) = 0 THEN <<>>
  ELSE LET keys == SortStrings(order)
           parts == [i \in 1..Len(keys) |-> keys[i] \o <<":">> \o FormatV(props.kv[keys[i]])]
       IN Join(parts, <<"|">>)

\* fmt.Sprintf("%s:%s:%s:%s", kind, startID, endID, propsKey) in AddEdge
edgeKey(kind, startID, endID, propsKey) ==
  kind \o <<":">> \o startID \o <<":">> \o endID \o <<":">> \o propsKey

\* AddEdge on the store gb = [Edges, EdgeKeys]; order as in propsToKey
AddEdge(gb, kind, startID, endID, properties, order) ==
  LET props == IF properties.isNil THEN EmptyMap ELSE properties
      key == edgeKey(kind, startID, endID, propsToKey(props, order))
      edge == [Kind |-> FormatEdgeKind(kind),
               StartID |-> [value |-> startID],
               EndID |-> [value |-> endID],
               Properties |-> props]
  IN IF key \in gb.EdgeKeys
       THEN gb
       ELSE [Edges |-> Append(gb.Edges, edge), EdgeKeys |-> gb.EdgeKeys \cup {key}]

\* The kinds loop of EnsureNode on an existing node: each formatted kind not yet
\* in the list is appended
RECURSIVE UnionKinds(_, _)
UnionKinds(existingKinds, kinds) ==
  IF kinds = <<>> THEN existingKinds
  ELSE LET formatted == FormatNodeKind(kinds[1])
       IN UnionKinds(IF formatted \in Range(existingKinds)
                       THEN existingKinds
                       ELSE Append(existingKinds, formatted),
                     Tail(kinds))

\* EnsureNode writes an entry into the nil map of an existing node: Go panics
EnsureNodePanics(nodes, nodeID, properties) ==
  /\ nodeID \in DOMAIN nodes
  /\ nodes[nodeID].Properties.isNil
  /\ Keys(properties) # {}

\* The properties loop of EnsureNode: every key of properties overwrites
UpdateProperties(existing, properties) ==
  IF Keys(properties) = {} THEN existing
  ELSE [existing EXCEPT !.kv = [k \in (DOMAIN existing.kv) \cup Keys(properties) |->
                                  IF k \in Keys(properties) THEN properties.kv[k]
                                  ELSE existing.kv[k]]]

\* EnsureNode on the node map; when EnsureNodePanics holds the kinds have been
\* updated and the properties have not
EnsureNode(nodes, kinds, nodeID, properties) ==
  IF nodeID \in DOMAIN nodes
    THEN LET existing == nodes[nodeID]
             updated == [existing EXCEPT
                           !.Kinds = UnionKinds(existing.Kinds, kinds),
                           !.Properties = IF EnsureNodePanics(nodes, nodeID, properties)
                                            THEN existing.Properties
                                            ELSE UpdateProperties(existing.Properties, properties)]
         IN [nodes EXCEPT ![nodeID] = updated]
    ELSE LET node == [Kinds |-> [i \in 1..Len(kinds) |-> FormatNodeKind(kinds[i])],
                      ID |-> nodeID,
                      Properties |-> properties]
         IN [id \in (DOMAIN nodes) \cup {nodeID} |-> IF id = nodeID THEN node ELSE nodes[id]]

\* NewGraphBuilder
NewGraphBuilder == [NodesByID |-> << >>, Edges |-> << >>, EdgeKeys |-> {}]

(***************************************************************************)
(* collector.Collector: the permission resolver                            *)
(***************************************************************************)

\* parsePrincipal of the permission resolver
parsePrincipal(principal) ==
  IF Contains(principal, "\\")
    THEN LET parts == SplitN2(principal, "\\") IN << parts[1], parts[2] >>
  ELSE IF Contains(principal, "@")
    THEN LET parts == SplitN2(principal, "@") IN << parts[2], parts[1] >>
  ELSE << <<>>, principal >>

\* Collector.parsePrincipal with the two tests in the other order
Collector_parsePrincipal_atFirst(principal) ==
  IF Contains(principal, "@")
    THEN LET parts == SplitN2(principal, "@") IN << parts[2], parts[1] >>
  ELSE IF Contains(principal, "\\")
    THEN LET parts == SplitN2(principal, "\\") IN << parts[1], parts[2] >>
  ELSE << <<>>, principal >>

\* Collector.parsePrincipal of the membership resolver
Collector_parsePrincipal(principal) ==
  IF Contains(principal, "\\")
    THEN LET parts == SplitN2(principal, "\\") IN << parts[1], parts[2] >>
  ELSE IF Contains(principal, "@")
    THEN LET parts == SplitN2(principal, "@") IN << parts[2], parts[1] >>
  ELSE << <<>>, principal >>

\* isNoAccess without the lower-casing
isNoAccess_caseSensitive(roleName) ==
  roleName = <<"n","o"," ","a","c","c","e","s","s">> \/ roleName = <<"n","o","a","c","c","e","s","s">> \/ roleName = <<"n","o","-","a","c","c","e","s","s">>

isNoAccess(roleName) ==
  LET l == ToLower(roleName)
  IN l = <<"n","o"," ","a","c","c","e","s","s">> \/ l = <<"n","o","a","c","c","e","s","s">> \/ l = <<"n","o","-","a","c","c","e","s","s">>

\* getID
getID(ref) == ref.Value

\* fmt.Sprintf("<prefix>:%s:%s", c.Config.Host, id)
CanonicalID(prefix, host, id) == prefix \o <<":">> \o host \o <<":">> \o id

\* getEntityKindAndID with a ComputeResource keyed by its own native id
getEntityKindAndID_ownId(host, ref, retr) ==
  LET prefix == CASE ref.Type = <<"D","a","t","a","c","e","n","t","e","r">> -> <<"d","a","t","a","c","e","n","t","e","r">>
                  [] ref.Type = <<"C","l","u","s","t","e","r","C","o","m","p","u","t","e","R","e","s","o","u","r","c","e">> -> <<"c","l","u","s","t","e","r">>
                  [] ref.Type = <<"H","o","s","t","S","y","s","t","e","m">> -> <<"e","s","x","i","_","h","o","s","t">>
                  [] ref.Type = <<"C","o","m","p","u","t","e","R","e","s","o","u","r","c","e">> -> <<"e","s","x","i","_","h","o","s","t">>
                  [] ref.Type = <<"V","i","r","t","u","a","l","M","a","c","h","i","n","e">> -> <<"v","m">>
                  [] ref.Type = <<"F","o","l","d","e","r">> -> <<"f","o","l","d","e","r">>
                  [] OTHER -> ToLower(ref.Type)
  IN << ref.Type, prefix \o <<":">> \o host \o <<":">> \o ref.Value >>

\* getEntityKindAndID of a collector configured for host: retr is what
\* RetrieveOne(ref, "host") gave for a ComputeResource, [err, Host]; the result
\* is << kind, id >>
getEntityKindAndID(host, ref, retr) ==
  LET moid == getID(ref)
  IN CASE ref.Type = <<"D","a","t","a","c","e","n","t","e","r">> -> << <<"D","a","t","a","c","e","n","t","e","r">>, CanonicalID(<<"d","a","t","a","c","e","n","t","e","r">>, host, moid) >>
       [] ref.Type = <<"C","l","u","s","t","e","r","C","o","m","p","u","t","e","R","e","s","o","u","r","c","e">> -> << <<"C","l","u","s","t","e","r">>, CanonicalID(<<"c","l","u","s","t","e","r">>, host, moid) >>
       [] ref.Type = <<"H","o","s","t","S","y","s","t","e","m">> -> << <<"E","S","X","i","H","o","s","t">>, CanonicalID(<<"e","s","x","i","_","h","o","s","t">>, host, moid) >>
       [] ref.Type = <<"C","o","m","p","u","t","e","R","e","s","o","u","r","c","e">> ->
            IF ~retr.err /\ Len(retr.Host) > 0
              THEN << <<"E","S","X","i","H","o","s","t">>, CanonicalID(<<"e","s","x","i","_","h","o","s","t">>, host, retr.Host[1]) >>
              ELSE << <<"E","S","X","i","H","o","s","t">>, CanonicalID(<<"e","s","x","i","_","h","o","s","t">>, host, moid) >>
       [] ref.Type = <<"V","i","r","t","u","a","l","M","a","c","h","i","n","e">> -> << <<"V","M">>, CanonicalID(<<"v","m">>, host, moid) >>
       [] ref.Type = <<"F","o","l","d","e","r">> -> << <<"F","o","l","d","e","r">>, CanonicalID(<<"f","o","l","d","e","r">>, host, moid) >>
       [] OTHER -> << ref.Type, CanonicalID(ToLower(ref.Type), host, moid) >>

\* The principal node id processPermission and findMembers build
PrincipalID(host, principal, isGroup) ==
  IF isGroup THEN CanonicalID(<<"g","r","o","u","p">>, host, principal)
  ELSE CanonicalID(<<"u","s","e","r">>, host, principal)

\* The properties processPermission gives the principal node
PrincipalProps(principal, isGroup) ==
  LET parsed == parsePrincipal(principal)
  IN MakeMap([k \in { <<"n","a","m","e">>, <<"i","s","G","r","o","u","p">>, <<"d","o","m","a","i","n">>, <<"u","s","e","r","n","a","m","e">> } |->
                CASE k = <<"n","a","m","e">> -> VStr(principal)
                  [] k = <<"i","s","G","r","o","u","p">> -> VBool(isGroup)
                  [] k = <<"d","o","m","a","i","n">> -> VStr(parsed[1])
                  [] k = <<"u","s","e","r","n","a","m","e">> -> VStr(parsed[2])])

\* The privilege loop without the fallback: ids missing from privMap give no name
RECURSIVE PrivNames_foundOnly(_, _)
PrivNames_foundOnly(privilege, privMap) ==
  IF privilege = <<>> THEN <<>>
  ELSE (IF privilege[1] \in DOMAIN privMap THEN << privMap[privilege[1]].Name >> ELSE << >>)
         \o PrivNames_foundOnly(Tail(privilege), privMap)

\* The privilege loop of processPermission: one name per privilege id, the
\* display name when the id is in privMap and the raw id otherwise
RECURSIVE PrivNames(_, _)
PrivNames(privilege, privMap) ==
  IF privilege = <<>> THEN <<>>
  ELSE << IF privilege[1] \in DOMAIN privMap THEN privMap[privilege[1]].Name ELSE privilege[1] >>
         \o PrivNames(Tail(privilege), privMap)

\* groupSet of processPermission: the group names of the privileges found
GroupSet(privilege, privMap) ==
  { privMap[pid].PrivGroupName : pid \in Range(privilege) \cap DOMAIN privMap }

\* append on a nil or allocated []string gives an allocated one; no append leaves nil
StrsValue(l) == IF l = <<>> THEN VNilStrs ELSE VStrs(l)

\* The role information processPermission computes: gorder is the order in
\* which the range over groupSet visited it
RoleInfo(roleID, roles, privMap, gorder) ==
  IF roleID \in DOMAIN roles
    THEN LET r == roles[roleID]
         IN [roleName |-> r.Name,
             privIds |-> StrsValue(r.Privilege),
             privNames |-> StrsValue(PrivNames(r.Privilege, privMap)),
             privGroups |-> StrsValue(SortStrings(gorder)),
             privCount |-> Len(r.Privilege)]
    ELSE [roleName |-> <<>>, privIds |-> VNilStrs, privNames |-> VNilStrs,
          privGroups |-> VNilStrs, privCount |-> 0]

\* The edge properties of processPermission
PermissionEdgeProps(perm, info) ==
  MakeMap([k \in { <<"r","o","l","e","I","d">>, <<"r","o","l","e","N","a","m","e">>, <<"p","r","o","p","a","g","a","t","e">>, <<"p","r","i","v","i","l","e","g","e","I","d","s">>,
                   <<"p","r","i","v","i","l","e","g","e","N","a","m","e","s">>, <<"p","r","i","v","i","l","e","g","e","G","r","o","u","p","s">>, <<"p","r","i","v","i","l","e","g","e","C","o","u","n","t">> } |->
             CASE k = <<"r","o","l","e","I","d">> -> VInt(perm.RoleId)
               [] k = <<"r","o","l","e","N","a","m","e">> -> VStr(info.roleName)
               [] k = <<"p","r","o","p","a","g","a","t","e">> -> VBool(perm.Propagate)
               [] k = <<"p","r","i","v","i","l","e","g","e","I","d","s">> -> info.privIds
               [] k = <<"p","r","i","v","i","l","e","g","e","N","a","m","e","s">> -> info.privNames
               [] k = <<"p","r","i","v","i","l","e","g","e","G","r","o","u","p","s">> -> info.privGroups
               [] k = <<"p","r","i","v","i","l","e","g","e","C","o","u","n","t">> -> VInt(info.privCount)])

\* nodeProps with the placeholder name also for a node that exists
EntityNodeProps_named(ref, exists) ==
  MakeMap([k \in { <<"m","o","i","d">>, <<"n","a","m","e">> } |-> VStr(getID(ref))])

\* nodeProps of processPermission: moid always, name only for a new node
EntityNodeProps(ref, exists) ==
  IF ~exists
    THEN MakeMap([k \in { <<"m","o","i","d">>, <<"n","a","m","e">> } |-> VStr(getID(ref))])
    ELSE MakeMap([k \in { <<"m","o","i","d">> } |-> VStr(getID(ref))])

\* The absent *ManagedObjectReference
NilRef == [Type |-> <<>>, Value |-> <<>>, isNil |-> TRUE]

Ref(type, value) == [Type |-> type, Value |-> value, isNil |-> FALSE]

\* processPermission of a collector configured for host, on the store
\* gb = [NodesByID, Edges, EdgeKeys]: the store after it, how far it got, and
\* the arguments of the AddEdge call it made
processPermission(gb, host, perm, roles, privMap, retr, gorder, porder) ==
  LET principalID == PrincipalID(host, perm.Principal, perm.Group)
      kinds == IF perm.Group THEN << <<"G","r","o","u","p">> >> ELSE << <<"U","s","e","r">> >>
      nodes1 == EnsureNode(gb.NodesByID, kinds, principalID,
                           PrincipalProps(perm.Principal, perm.Group))
      info == RoleInfo(perm.RoleId, roles, privMap, gorder)
      entity == getEntityKindAndID(host, perm.Entity, retr)
      exists == entity[2] \in DOMAIN nodes1
      nodeProps == EntityNodeProps(perm.Entity, exists)
      nodes2 == EnsureNode(nodes1, << entity[1] >>, entity[2], nodeProps)
      props == PermissionEdgeProps(perm, info)
      added == AddEdge([Edges |-> gb.Edges, EdgeKeys |-> gb.EdgeKeys],
                       <<"H","A","S","_","P","E","R","M","I","S","S","I","O","N">>, principalID, entity[2], props, porder)
  IN IF EnsureNodePanics(gb.NodesByID, principalID, PrincipalProps(perm.Principal, perm.Group))
       THEN [NodesByID |-> nodes1, Edges |-> gb.Edges, EdgeKeys |-> gb.EdgeKeys,
             outcome |-> "panic", panics |-> TRUE, addEdge |-> << >>]
     ELSE IF isNoAccess(info.roleName)
       THEN [NodesByID |-> nodes1, Edges |-> gb.Edges, EdgeKeys |-> gb.EdgeKeys,
             outcome |-> "no access", panics |-> FALSE, addEdge |-> << >>]
     ELSE IF perm.Entity.isNil
       THEN [NodesByID |-> nodes1, Edges |-> gb.Edges, EdgeKeys |-> gb.EdgeKeys,
             outcome |-> "no entity", panics |-> FALSE, addEdge |-> << >>]
     ELSE IF EnsureNodePanics(nodes1, entity[2], nodeProps)
       THEN [NodesByID |-> nodes2, Edges |-> gb.Edges, EdgeKeys |-> gb.EdgeKeys,
             outcome |-> "panic", panics |-> TRUE, addEdge |-> << >>]
     ELSE [NodesByID |-> nodes2, Edges |-> added.Edges, EdgeKeys |-> added.EdgeKeys,
           outcome |-> "edge", panics |-> FALSE,
           addEdge |-> << [kind |-> <<"H","A","S","_","P","E","R","M","I","S","S","I","O","N">>, start |-> principalID,
                           end |-> entity[2], props |-> props] >>]

(***************************************************************************)
(* Iteration order of a Go map                                             *)
(***************************************************************************)

RECURSIVE SetToSeq(_)
SetToSeq(S) ==
  IF S = {} THEN <<>>
  ELSE LET x == CHOOSE y \in S : TRUE IN << x >> \o SetToSeq(S \ {x})

Reverse(seq) == [i \in 1..Len(seq) |-> seq[Len(seq) + 1 - i]]

\* The orders in which a range over a map with key set S may visit it: Go
\* leaves the order unspecified, so every order
RangeOrders(S) == Orders(S)

\* Key sets of more than MaxPermuted keys are sampled in two opposite orders
MaxPermuted == 3

\* The visiting orders taken for a range whose collected strings the code
\* sorts before using them (sort.Strings in propsToKey), so that the order
\* visited does not reach the result: every order of a small key set, two
\* opposite orders of a larger one
SortedRangeOrders(S) ==
  IF Cardinality(S) <= MaxPermuted THEN Orders(S)
  ELSE { SetToSeq(S), Reverse(SetToSeq(S)) }

(***************************************************************************)
(* SpecStore: EnsureNode called directly on one store                      *)
(***************************************************************************)

\* EnsureNode calls per behaviour
MaxCalls == 3

KindLists ==
  { << <<"U","s","e","r">> >>, << <<"G","r","o","u","p">> >>, << <<"R","o","o","t","F","o","l","d","e","r">>, <<"F","o","l","d","e","r">> >>,
    << <<"U","s","e","r">>, <<"U","s","e","r">> >>, << <<"M","y",".","K","i","n","d">>, <<"M","y","-","K","i","n","d">> >> }

NodeIds == { <<"x">>, <<"y">> }

PropMaps ==
  { NilMap, EmptyMap,
    MakeMap([k \in { <<"n","a","m","e">> } |-> VStr(<<"A">>)]),
    MakeMap([k \in { <<"n","a","m","e">> } |-> VStr(<<"B">>)]),
    MakeMap([k \in { <<"n","a","m","e">>, <<"m","o","i","d">> } |-> IF k = <<"n","a","m","e">> THEN VStr(<<"C">>) ELSE VStr(<<"m">>)]) }

\* The store NewGraphBuilder returns, before any call
InitGraph ==
  /\ NodesByID = NewGraphBuilder.NodesByID
  /\ Edges = NewGraphBuilder.Edges
  /\ EdgeKeys = NewGraphBuilder.EdgeKeys
  /\ panicked = FALSE
  /\ call = [op |-> "none"]
  /\ nCalls = 0
  /\ suppliedKinds = << >>
  /\ lastSupplied = << >>
  /\ edgeOrigins = << >>
  /\ resolved = {}

\* No pure function is under evaluation
InitNoPure ==
  /\ pureIn = <<>>
  /\ pureOut = << >>

\* No sync step is under way
InitNoSync ==
  /\ available = [err |-> TRUE, cause |-> "transport", StatusCode |-> 0, Data |-> << >>]
  /\ graphData = << >>
  /\ DomainMap = EmptyMap
  /\ syncEdges = << >>
  /\ syncTool = "none"

\* No request has been signed
InitNoSign ==
  /\ zone = 0
  /\ signed = {}

\* No collection run is under way
InitNoMain ==
  /\ servers = << >>
  /\ pos = 1
  /\ connectors = << >>
  /\ mergedGraph = [NodesByID |-> << >>, Edges |-> << >>]
  /\ collected = << >>
  /\ exitCode = "running"
  /\ outFile = << >>
  /\ logged = ""

\* No membership collection is under way
InitNoMember ==
  /\ authPerms = << >>
  /\ userDirectory = [isNil |-> TRUE, err |-> FALSE, DomainList |-> << >>]
  /\ selectedGroups = {}
  /\ domains = << >>
  /\ pending = << >>
  /\ issued = << >>
  /\ memberPhase = "idle"

\* No inventory traversal is under way
InitNoInfra ==
  /\ work = << >>
  /\ visits = << >>
  /\ infraPhase = "idle"
  /\ permsLeft = << >>

\* Every part of the program but own is idle
InitIdleExcept(own) ==
  /\ syncOutput = [err |-> "none", file |-> << >>]
  /\ IF own = "infra" THEN TRUE ELSE InitNoInfra
  /\ IF own = "sign" THEN TRUE ELSE InitNoSign
  /\ IF own = "main" THEN TRUE ELSE InitNoMain
  /\ IF own = "member" THEN TRUE ELSE InitNoMember

\* Nothing outside the graph store, the parsers and the sync step has run
InitLater == InitIdleExcept("none")

\* The graph store, the parsers and the sync step are idle
InitEarlier == InitGraph /\ InitNoPure /\ InitNoSync

InitStore == InitGraph /\ InitNoPure /\ InitNoSync /\ InitLater

\* History of the kinds and property values supplied for nodeID
RecordEnsure(kinds, nodeID, properties) ==
  LET oldKinds == IF nodeID \in DOMAIN suppliedKinds THEN suppliedKinds[nodeID] ELSE {}
      oldProps == IF nodeID \in DOMAIN lastSupplied THEN lastSupplied[nodeID] ELSE << >>
      newProps == [k \in (DOMAIN oldProps) \cup Keys(properties) |->
                     IF k \in Keys(properties) THEN properties.kv[k] ELSE oldProps[k]]
  IN /\ suppliedKinds' = [id \in (DOMAIN suppliedKinds) \cup {nodeID} |->
                            IF id = nodeID THEN oldKinds \cup Range(kinds) ELSE suppliedKinds[id]]
     /\ lastSupplied' = [id \in (DOMAIN lastSupplied) \cup {nodeID} |->
                            IF id = nodeID THEN newProps ELSE lastSupplied[id]]

\* A caller invokes gb.EnsureNode(kinds, nodeID, properties)
CallEnsureNode ==
  \E kinds \in KindLists, nodeID \in NodeIds, properties \in PropMaps :
    /\ ~panicked
    /\ nCalls < MaxCalls
    /\ NodesByID' = EnsureNode(NodesByID, kinds, nodeID, properties)
    /\ panicked' = EnsureNodePanics(NodesByID, nodeID, properties)
    /\ call' = [op |-> "EnsureNode", kinds |-> kinds, id |-> nodeID, props |-> properties,
                existed |-> nodeID \in DOMAIN NodesByID]
    /\ nCalls' = nCalls + 1
    /\ RecordEnsure(kinds, nodeID, properties)
    /\ UNCHANGED << Edges, EdgeKeys, edgeOrigins, resolved, pureIn, pureOut, available,
                    graphData, DomainMap, syncEdges, syncTool, laterVars >>

NextStore == CallEnsureNode

SpecStore == InitStore /\ [][NextStore]_vars

NoDuplicates(seq) == \A i, j \in 1..Len(seq) : i # j => seq[i] # seq[j]

\* C1 (as claimed): after any sequence of EnsureNode calls for one id, the
\* node's kinds are exactly the formatted kinds of every kind any of the
\* calls supplied, and no kind occurs twice in the list.
C1_KindsUnionNoDuplicates ==
  \A id \in DOMAIN NodesByID :
    /\ Range(NodesByID[id].Kinds) = { FormatNodeKind(k) : k \in suppliedKinds[id] }
    /\ NoDuplicates(NodesByID[id].Kinds)

\* C2 (as claimed): after any sequence of EnsureNode calls for one id, the
\* node holds exactly the keys some call supplied, each with the value of the
\* last call that supplied it; a call that omits a key does not clear it.
C2_LastWriteWins ==
  \A id \in DOMAIN NodesByID :
    /\ ~panicked
    /\ ~NodesByID[id].Properties.isNil \/ DOMAIN lastSupplied[id] = {}
    /\ Keys(NodesByID[id].Properties) = DOMAIN lastSupplied[id]
    /\ \A k \in DOMAIN lastSupplied[id] : NodesByID[id].Properties.kv[k] = lastSupplied[id][k]

(***************************************************************************)
(* SpecPerm: the permission resolver and direct AddEdge calls on one store *)
(***************************************************************************)

\* processPermission and AddEdge calls per behaviour
MaxPermCalls == 2

\* privMap: privilege id -> its display name and group
PrivMap ==
  [pid \in { <<"P","1">>, <<"P","2">> } |->
     IF pid = <<"P","1">> THEN [Name |-> <<"P","o","w","e","r">>, PrivGroupName |-> <<"V","M">>]
     ELSE [Name |-> <<"B","r","o","w","s","e">>, PrivGroupName |-> <<"D","S">>]]

\* rolesByID: the role list of the authorization manager; role 7 is absent
RolesByID ==
  [rid \in { 1, 0 - 5 } |->
     IF rid = 1 THEN [Name |-> <<"A","d","m","i","n">>, Privilege |-> << <<"P","2">>, <<"P","1">>, <<"P","9">> >>]
     ELSE [Name |-> <<"N","o","A","c","c","e","s","s">>, Privilege |-> << >>]]

\* c.Config.Host of the collector
ConfigHost == <<"v","c">>

\* The hosts a ComputeResource of the inventory contains
HostsOf(ref) == IF ref.Value = <<"c","r","-","1">> THEN << <<"h","o","s","t","-","9">> >> ELSE << >>

EntityRefs ==
  { NilRef, Ref(<<"V","i","r","t","u","a","l","M","a","c","h","i","n","e">>, <<"v","m","-","1">>), Ref(<<"C","o","m","p","u","t","e","R","e","s","o","u","r","c","e">>, <<"c","r","-","1">>) }

\* What RetrieveOne(ref, "host") can give: the hosts, or an error
Retrievals(ref) ==
  IF ref.Type = <<"C","o","m","p","u","t","e","R","e","s","o","u","r","c","e">>
    THEN { [err |-> FALSE, Host |-> HostsOf(ref)], [err |-> TRUE, Host |-> << >>] }
    ELSE { [err |-> FALSE, Host |-> << >>] }

\* The permissions RetrieveAllPermissions may return
Perms ==
  { [Principal |-> <<"C","O","R","P","\\","a">>, Group |-> FALSE, RoleId |-> rid, Entity |-> ref, Propagate |-> pg] :
      rid \in { 1, 0 - 5, 7 }, ref \in EntityRefs, pg \in BOOLEAN }
  \cup
  { [Principal |-> <<"o","p","s">>, Group |-> TRUE, RoleId |-> rid, Entity |-> Ref(<<"V","i","r","t","u","a","l","M","a","c","h","i","n","e">>, <<"v","m","-","1">>),
     Propagate |-> TRUE] : rid \in { 1, 0 - 5 } }

\* The arguments of direct AddEdge calls
DirectEdges ==
  { [kind |-> k, start |-> <<"u","s","e","r",":","v","c",":","C","O","R","P","\\","a">>, end |-> <<"v","m",":","v","c",":","v","m","-","1">>, props |-> p] :
      k \in { <<"H","A","S","_","P","E","R","M","I","S","S","I","O","N">>, <<"H","a","s","P","e","r","m","i","s","s","i","o","n">> },
      p \in { NilMap, EmptyMap,
              MakeMap([x \in { <<"p","r","o","p","a","g","a","t","e">>, <<"r","o","l","e","I","d">> } |->
                         IF x = <<"p","r","o","p","a","g","a","t","e">> THEN VBool(TRUE) ELSE VInt(1)]),
              MakeMap([x \in { <<"p","r","o","p","a","g","a","t","e">>, <<"r","o","l","e","I","d">> } |->
                         IF x = <<"p","r","o","p","a","g","a","t","e">> THEN VBool(FALSE) ELSE VInt(1)]) } }

InitPerm == InitGraph /\ InitNoPure /\ InitNoSync /\ InitLater

\* The raw kinds of the stored edges after a call that made them newEdges
OriginsAfter(newEdges, kind) ==
  IF Len(newEdges) > Len(Edges) THEN Append(edgeOrigins, kind) ELSE edgeOrigins

\* A caller invokes gb.AddEdge(kind, start, end, props)
CallAddEdge ==
  \E e \in DirectEdges :
    \E order \in SortedRangeOrders(Keys(e.props)) :
      LET added == AddEdge([Edges |-> Edges, EdgeKeys |-> EdgeKeys],
                           e.kind, e.start, e.end, e.props, order)
      IN /\ ~panicked
         /\ nCalls < MaxPermCalls
         /\ Edges' = added.Edges
         /\ EdgeKeys' = added.EdgeKeys
         /\ edgeOrigins' = OriginsAfter(added.Edges, e.kind)
         /\ call' = [op |-> "AddEdge", outcome |-> "edge", addEdge |-> << e >>,
                     edgesBefore |-> Len(Edges)]
         /\ nCalls' = nCalls + 1
         /\ UNCHANGED << NodesByID, panicked, suppliedKinds, lastSupplied, resolved,
                         pureIn, pureOut, available, graphData, DomainMap, syncEdges,
                         syncTool, laterVars >>

\* The groups processPermission collects for the role of perm
PermGroupSet(perm) ==
  IF perm.RoleId \in DOMAIN RolesByID
    THEN GroupSet(RolesByID[perm.RoleId].Privilege, PrivMap)
    ELSE {}

\* The collector processes one permission of the list
ProcessPermission ==
  \E perm \in Perms :
    \E retr \in Retrievals(perm.Entity), gorder \in RangeOrders(PermGroupSet(perm)),
       porder \in SortedRangeOrders(DOMAIN PermissionEdgeProps(perm, RoleInfo(perm.RoleId, RolesByID, PrivMap, <<>>)).kv) :
      LET r == processPermission([NodesByID |-> NodesByID, Edges |-> Edges, EdgeKeys |-> EdgeKeys],
                                 ConfigHost, perm, RolesByID, PrivMap, retr, gorder, porder)
          entity == getEntityKindAndID(ConfigHost, perm.Entity, retr)
      IN /\ ~panicked
         /\ nCalls < MaxPermCalls
         /\ NodesByID' = r.NodesByID
         /\ Edges' = r.Edges
         /\ EdgeKeys' = r.EdgeKeys
         /\ edgeOrigins' = OriginsAfter(r.Edges, <<"H","A","S","_","P","E","R","M","I","S","S","I","O","N">>)
         /\ panicked' = r.panics
         /\ call' = [op |-> "processPermission", outcome |-> r.outcome, addEdge |-> r.addEdge,
                     edgesBefore |-> Len(Edges), perm |-> perm]
         /\ resolved' = IF r.outcome \in { "edge", "panic" }
                          THEN resolved \cup { [host |-> ConfigHost, ref |-> perm.Entity, retr |-> retr,
                                                kind |-> entity[1], id |-> entity[2]] }
                          ELSE resolved
         /\ nCalls' = nCalls + 1
         /\ UNCHANGED << suppliedKinds, lastSupplied, pureIn, pureOut, available, graphData,
                         DomainMap, syncEdges, syncTool, laterVars >>

NextPerm == CallAddEdge \/ ProcessPermission

SpecPerm == InitPerm /\ [][NextPerm]_vars

\* The AddEdge arguments with an absent property map read as the empty one
NormArgs(e) == [e EXCEPT !.props = IF e.props.isNil THEN EmptyMap ELSE e.props]

\* The (kind, start, end, properties) that put edges[i] into the list
StoredArgs(edges, origins, i) ==
  [kind |-> origins[i], start |-> edges[i].StartID.value, end |-> edges[i].EndID.value,
   props |-> edges[i].Properties]

\* C3: a step that calls AddEdge with a (kind, start, end, properties) equal
\* to that of an edge already in the store, in whatever order the property
\* entries are visited, does not fail and leaves the edge list and the key
\* set unchanged; after any AddEdge call the list holds exactly one edge with
\* the arguments of the call.  processPermission on a permission it has
\* already processed is such a call.
C3_DuplicateAddEdgeIsNoOp ==
  [][\A k \in 1..Len(call'.addEdge) :
       LET e == NormArgs(call'.addEdge[k])
       IN /\ ~panicked'
          /\ (\E i \in 1..Len(Edges) : StoredArgs(Edges, edgeOrigins, i) = e)
               => (Edges' = Edges /\ EdgeKeys' = EdgeKeys)
          /\ Cardinality({ i \in 1..Len(Edges') : StoredArgs(Edges', edgeOrigins', i) = e }) = 1
    ]_vars

\* C3 witness: the second of two identical permission assignments has been
\* processed, reached AddEdge, and the store holds the one edge of the first.
C3_SecondIdenticalAssignment ==
  /\ call.op = "processPermission"
  /\ call.outcome = "edge"
  /\ call.edgesBefore = 1
  /\ Len(Edges) = 1
  /\ StoredArgs(Edges, edgeOrigins, 1) = call.addEdge[1]

\* a and b are AddEdge arguments that differ in the propagate value only
DiffersOnlyInPropagate(a, b) ==
  /\ a.kind = b.kind /\ a.start = b.start /\ a.end = b.end
  /\ Keys(a.props) = Keys(b.props)
  /\ <<"p","r","o","p","a","g","a","t","e">> \in Keys(a.props)
  /\ \A k \in Keys(a.props) : (a.props.kv[k] = b.props.kv[k]) <=> (k # <<"p","r","o","p","a","g","a","t","e">>)

\* C4: a step that calls AddEdge for a HasPermission edge not yet stored,
\* while the store holds an edge with the same kind, start and end whose
\* properties differ from it in the value of propagate only, appends the edge:
\* the store then holds both.  This covers the direct call and the call
\* processPermission makes for an assignment that differs from an earlier one
\* in propagate only.
C4_PropagateDistinguishesEdges ==
  [][\A k \in 1..Len(call'.addEdge) :
       LET e == NormArgs(call'.addEdge[k])
       IN (/\ \E i \in 1..Len(Edges) : DiffersOnlyInPropagate(StoredArgs(Edges, edgeOrigins, i), e)
           /\ ~\E i \in 1..Len(Edges) : StoredArgs(Edges, edgeOrigins, i) = e)
          => /\ Len(Edges') = Len(Edges) + 1
             /\ SubSeq(Edges', 1, Len(Edges)) = Edges
             /\ StoredArgs(Edges', edgeOrigins', Len(Edges')) = e
             /\ Edges'[Len(Edges')].Kind = <<"v","C","e","n","t","e","r","_","H","a","s","P","e","r","m","i","s","s","i","o","n">>
    ]_vars

\* C4 witness: two assignments differing only in propagate have been
\* processed and the store holds their two edges.
C4_TwoEdgesDifferingInPropagate ==
  /\ call.op = "processPermission"
  /\ Len(Edges) = 2
  /\ DiffersOnlyInPropagate(StoredArgs(Edges, edgeOrigins, 1), StoredArgs(Edges, edgeOrigins, 2))
  /\ Edges[1].Kind = <<"v","C","e","n","t","e","r","_","H","a","s","P","e","r","m","i","s","s","i","o","n">> /\ Edges[2].Kind = <<"v","C","e","n","t","e","r","_","H","a","s","P","e","r","m","i","s","s","i","o","n">>

\* s spells lower, each letter in either case
CaseVariant(s, lower) ==
  /\ Len(s) = Len(lower)
  /\ \A i \in 1..Len(s) : s[i] = lower[i] \/ s[i] = ToUpperChar(lower[i])

\* The role names that are dropped: the case variants of three spellings
NoAccessSpelling(s) ==
  \/ CaseVariant(s, <<"n","o"," ","a","c","c","e","s","s">>)
  \/ CaseVariant(s, <<"n","o","a","c","c","e","s","s">>)
  \/ CaseVariant(s, <<"n","o","-","a","c","c","e","s","s">>)

\* The permission names a role whose name is one of the dropped spellings
HasNoAccessRole(perm) ==
  /\ perm.RoleId \in DOMAIN RolesByID
  /\ NoAccessSpelling(RolesByID[perm.RoleId].Name)

\* C5 (as claimed): processing an assignment whose role is a no-access role
\* leaves the store exactly as it was: no edge added, no node created or
\* modified, the principal node included.
C5_NoAccessLeavesStoreUnchanged ==
  [][(call'.op = "processPermission" /\ HasNoAccessRole(call'.perm))
       => (NodesByID' = NodesByID /\ Edges' = Edges /\ EdgeKeys' = EdgeKeys)
    ]_vars

\* C5 (amended): processing an assignment whose role is a no-access role adds
\* no edge and creates or modifies no node other than the principal's own,
\* which exists afterwards with its User or Group kind and its name.
C5_NoAccessTouchesOnlyPrincipal ==
  [][(call'.op = "processPermission" /\ HasNoAccessRole(call'.perm))
       => LET perm == call'.perm
              pid == (IF perm.Group THEN <<"g","r","o","u","p",":">> ELSE <<"u","s","e","r",":">>) \o ConfigHost \o <<":">> \o perm.Principal
          IN /\ Edges' = Edges /\ EdgeKeys' = EdgeKeys
             /\ DOMAIN NodesByID' = (DOMAIN NodesByID) \cup {pid}
             /\ \A id \in (DOMAIN NodesByID) \ {pid} : NodesByID'[id] = NodesByID[id]
             /\ (IF perm.Group THEN <<"v","C","e","n","t","e","r","_","G","r","o","u","p">> ELSE <<"v","C","e","n","t","e","r","_","U","s","e","r">>) \in Range(NodesByID'[pid].Kinds)
             /\ NodesByID'[pid].Properties.kv[<<"n","a","m","e">>] = VStr(perm.Principal)
    ]_vars

\* C5 witness: the first assignment processed names a no-access role; it was
\* dropped, no edge exists, and the principal's node is the only node.
C5_PrincipalCreatedByDroppedAssignment ==
  /\ call.op = "processPermission"
  /\ call.outcome = "no access"
  /\ HasNoAccessRole(call.perm)
  /\ nCalls = 1
  /\ Len(Edges) = 0
  /\ Cardinality(DOMAIN NodesByID) = 1

(***************************************************************************)
(* SpecResolve: getEntityKindAndID applied to drawn references             *)
(***************************************************************************)

\* Entity resolutions per behaviour
MaxResolves == 2

ResolveHosts == { <<"v","c">>, <<"v","2">> }

ResolveTypes ==
  { <<"D","a","t","a","c","e","n","t","e","r">>, <<"C","l","u","s","t","e","r","C","o","m","p","u","t","e","R","e","s","o","u","r","c","e">>, <<"H","o","s","t","S","y","s","t","e","m">>, <<"C","o","m","p","u","t","e","R","e","s","o","u","r","c","e">>,
    <<"V","i","r","t","u","a","l","M","a","c","h","i","n","e">>, <<"F","o","l","d","e","r">>, <<"N","e","t","w","o","r","k">> }

ResolveMoids == { <<"m","-","1">>, <<"m","-","2">> }

\* What RetrieveOne(ref, "host") may give for a ComputeResource
ResolveRetrievals(ref) ==
  IF ref.Type = <<"C","o","m","p","u","t","e","R","e","s","o","u","r","c","e">>
    THEN { [err |-> TRUE, Host |-> << >>], [err |-> FALSE, Host |-> << >>],
           [err |-> FALSE, Host |-> << <<"h","-","1">> >>], [err |-> FALSE, Host |-> << <<"h","-","2">>, <<"h","-","1">> >>] }
    ELSE { [err |-> FALSE, Host |-> << >>] }

InitResolve == InitGraph /\ InitNoPure /\ InitNoSync /\ InitLater

\* A collector configured for host resolves the entity of a permission
ResolveEntity ==
  \E host \in ResolveHosts, type \in ResolveTypes, moid \in ResolveMoids :
    \E retr \in ResolveRetrievals(Ref(type, moid)) :
      LET entity == getEntityKindAndID(host, Ref(type, moid), retr)
      IN /\ nCalls < MaxResolves
         /\ resolved' = resolved \cup { [host |-> host, ref |-> Ref(type, moid), retr |-> retr,
                                         kind |-> entity[1], id |-> entity[2]] }
         /\ call' = [op |-> "getEntityKindAndID", id |-> entity[2]]
         /\ nCalls' = nCalls + 1
         /\ UNCHANGED << NodesByID, Edges, EdgeKeys, panicked, suppliedKinds, lastSupplied,
                         edgeOrigins, pureIn, pureOut, available, graphData, DomainMap,
                         syncEdges, syncTool, laterVars >>

NextResolve == ResolveEntity

SpecResolve == InitResolve /\ [][NextResolve]_vars

\* C8 (as claimed): the id resolved for (type, host, native id) depends on
\* those three only, and for a fixed type and host two different native ids
\* never resolve to the same id.
C8_IdDependsOnTypeHostNativeId ==
  \A a, b \in resolved :
    /\ (a.host = b.host /\ a.ref = b.ref) => a.id = b.id
    /\ (a.host = b.host /\ a.ref.Type = b.ref.Type /\ a.ref.Value # b.ref.Value) => a.id # b.id

\* The native id that keys a resolution: the first contained host of a
\* ComputeResource whose host list was retrieved and is not empty, else
\* the native id of the reference itself
KeyingNativeId(r) ==
  IF r.ref.Type = <<"C","o","m","p","u","t","e","R","e","s","o","u","r","c","e">> /\ ~r.retr.err /\ r.retr.Host # << >>
    THEN Head(r.retr.Host)
    ELSE r.ref.Value

\* C8 (amended): for a fixed type and host, two resolutions give the same id
\* exactly when their keying native ids are equal, where the keying native id
\* is the reference's own except for a ComputeResource whose host list was
\* retrieved and is not empty, which is keyed by its first host; the id ends
\* with ":" and the keying native id.
C8_IdDependsOnKeyingNativeId ==
  \A a, b \in resolved :
    /\ (a.host = b.host /\ a.ref.Type = b.ref.Type)
         => (a.id = b.id <=> KeyingNativeId(a) = KeyingNativeId(b))
    /\ LET tail == <<":">> \o a.host \o <<":">> \o KeyingNativeId(a)
       IN SubSeq(a.id, Len(a.id) - Len(tail) + 1, Len(a.id)) = tail

\* C8 witness: one ComputeResource has been resolved twice under the same
\* host, once with its hosts retrieved and once not, to two different ids.
C8_SameReferenceTwoIds ==
  \E a, b \in resolved :
    /\ a.host = b.host /\ a.ref = b.ref
    /\ a.ref.Type = <<"C","o","m","p","u","t","e","R","e","s","o","u","r","c","e">>
    /\ a.id # b.id

(***************************************************************************)
(* SpecPure: the role classifier and the principal parsers on drawn strings*)
(***************************************************************************)

\* Longest principal string drawn
MaxLen == 4

PrincipalAlphabet == { "a", "b", "\\", "@" }

\* Every string over PrincipalAlphabet of at most MaxLen characters
Principals == UNION { [1..n -> PrincipalAlphabet] : n \in 0..MaxLen }

\* Role display names: spellings of "no access" and names that are not
RoleNames ==
  { <<"n","o"," ","a","c","c","e","s","s">>, <<"n","o","a","c","c","e","s","s">>, <<"n","o","-","a","c","c","e","s","s">>, <<"N","o"," ","A","c","c","e","s","s">>, <<"N","o","A","c","c","e","s","s">>, <<"N","o","-","A","c","c","e","s","s">>,
    <<"N","O","A","C","C","E","S","S">>, <<"N","O"," ","A","C","C","E","S","S">>, <<"N","O","-","A","C","C","E","S","S">>, <<"n","O"," ","a","C","C","E","S","S">>, <<"N","o","_","A","c","c","e","s","s">>, <<"n","o",".","a","c","c","e","s","s">>,
    <<"n","o","_","a","c","c","e","s","s">>, <<"N","O",".","A","C","C","E","S","S">>, <<"n","o"," "," ","a","c","c","e","s","s">>, <<"n","o","-","-","a","c","c","e","s","s">>, <<"n","o"," ","a","c","c","e","s","s",".">>, <<" ","n","o"," ","a","c","c","e","s","s">>,
    <<"n","-","o","a","c","c","e","s","s">>, <<"n","o","a","c","c","e","s","s","-">>, <<"n","o"," ","a","c","c","e","s","s"," ","r","o","l","e">>, <<"n","o","a","c","c","e","s">>, <<"A","d","m","i","n">>, <<"R","e","a","d","O","n","l","y">>,
    <<"n","o">>, <<"a","c","c","e","s","s">>, <<>> }

InitPure ==
  /\ InitGraph
  /\ InitNoSync
  /\ InitLater
  /\ pureIn \in Principals \cup RoleNames
  /\ pureOut = << >>

\* fn is applied to pureIn and gives out
Applied(fn, out) ==
  /\ fn \notin DOMAIN pureOut
  /\ pureOut' = (fn :> out) @@ pureOut
  /\ UNCHANGED << NodesByID, Edges, EdgeKeys, panicked, call, nCalls, suppliedKinds,
                  lastSupplied, edgeOrigins, resolved, pureIn, available, graphData,
                  DomainMap, syncEdges, syncTool, laterVars >>

ApplyIsNoAccess == Applied("isNoAccess", isNoAccess(pureIn))

ApplyParsePrincipal == Applied("parsePrincipal", parsePrincipal(pureIn))

ApplyCollectorParsePrincipal == Applied("Collector.parsePrincipal", Collector_parsePrincipal(pureIn))

NextPure == ApplyIsNoAccess \/ ApplyParsePrincipal \/ ApplyCollectorParsePrincipal

SpecPure == InitPure /\ [][NextPure]_vars


\* The letters and digits of s, in order
StripPunctuation(s) ==
  SelectSeq(s, LAMBDA c : \/ (Ord(c) >= 97 /\ Ord(c) <= 122)
                          \/ (Ord(c) >= 65 /\ Ord(c) <= 90)
                          \/ (Ord(c) >= 48 /\ Ord(c) <= 57))

\* C6: a role name is classified as no-access exactly when, case-folded and
\* with punctuation and separators removed, it reads "no access".
C6_NoAccessModuloPunctuation ==
  "isNoAccess" \in DOMAIN pureOut
    => (pureOut["isNoAccess"] <=> StripPunctuation(ToLower(pureIn)) = <<"n","o","a","c","c","e","s","s">>)

\* out is the (domain, username) the parsing rule gives for principal
ParsedAs(principal, out) ==
  IF Contains(principal, "\\")
    THEN out[1] \o << "\\" >> \o out[2] = principal /\ ~Contains(out[1], "\\")
  ELSE IF Contains(principal, "@")
    THEN out[2] \o << "@" >> \o out[1] = principal /\ ~Contains(out[2], "@")
  ELSE out = << <<>>, principal >>

\* C7: on every principal string each of the two parsers returns the parts
\* before and after the first backslash if there is a backslash, else (text
\* after the first '@', text before it) if there is an '@', else
\* ("", principal); so the two agree, and a string with both characters is
\* parsed by the backslash rule.
C7_ParsersAgreeOnRule ==
  /\ "parsePrincipal" \in DOMAIN pureOut
       => ParsedAs(pureIn, pureOut["parsePrincipal"])
  /\ "Collector.parsePrincipal" \in DOMAIN pureOut
       => ParsedAs(pureIn, pureOut["Collector.parsePrincipal"])
  /\ { "parsePrincipal", "Collector.parsePrincipal" } \subseteq DOMAIN pureOut
       => pureOut["parsePrincipal"] = pureOut["Collector.parsePrincipal"]

\* C7 witness: both parsers have parsed a string that holds an '@' before a
\* backslash, and gave a domain that contains the '@'.
C7_BothParsedMixedPrincipal ==
  /\ { "parsePrincipal", "Collector.parsePrincipal" } \subseteq DOMAIN pureOut
  /\ Contains(pureIn, "\\") /\ Contains(pureIn, "@")
  /\ Contains(pureOut["parsePrincipal"][1], "@")
  /\ Contains(pureOut["Collector.parsePrincipal"][1], "@")

(***************************************************************************)
(* The sync step: postprocess.Processor.Run and vCenterNeo4j               *)
(***************************************************************************)

\* v, _ := props[key].(string)
StrProp(props, key) ==
  IF Has(props, key) /\ props.kv[key].t = "string" THEN props.kv[key].v ELSE <<>>

\* The loop of Client.GetDomainMap over the decoded response
RECURSIVE DomainMapOf(_, _)
DomainMapOf(domainMap, data) ==
  IF data = << >> THEN domainMap
  ELSE LET fqdn == ToUpper(data[1])
           parts == Split(fqdn, ".")
           netbios == parts[1]
       IN DomainMapOf(Put(domainMap, netbios, fqdn), Tail(data))

\* Client.GetDomainMap: the map, or an error when Do fails or the status is
\* not 200
GetDomainMap(response) ==
  IF response.err THEN [err |-> TRUE, map |-> NilMap]
  ELSE IF response.StatusCode # 200 THEN [err |-> TRUE, map |-> NilMap]
  ELSE [err |-> FALSE, map |-> DomainMapOf(EmptyMap, response.Data)]

\* The loop of getDomainMap over the records of the domain query
RECURSIVE Neo4jDomainMapOf(_, _)
Neo4jDomainMapOf(dMap, records) ==
  IF records = << >> THEN dMap
  ELSE LET fqdn == records[1]
           parts == Split(fqdn, ".")
           netbios == ToUpper(parts[1])
       IN Neo4jDomainMapOf(Put(dMap, netbios, ToUpper(fqdn)), Tail(records))

\* getDomainMap of vCenterNeo4j: nil when the query fails
getDomainMap(response) ==
  IF response.err THEN NilMap ELSE Neo4jDomainMapOf(EmptyMap, response.Data)

\* The foreign id without the upper-casing of the username
ADPrincipalID_asWritten(username, fqdn) == username \o << "@" >> \o fqdn

\* fmt.Sprintf("%s@%s", strings.ToUpper(username), fqdn)
ADPrincipalID(username, fqdn) == ToUpper(username) \o << "@" >> \o fqdn

\* The AddRawEdgeWithMatch call the sync loop of Run makes for node, if any
RunSyncEdge(node, domainMap) ==
  LET isUser == <<"v","C","e","n","t","e","r","_","U","s","e","r">> \in Range(node.Kinds)
      isGroup == <<"v","C","e","n","t","e","r","_","G","r","o","u","p">> \in Range(node.Kinds)
      name == StrProp(node.Properties, <<"n","a","m","e">>)
      username == StrProp(node.Properties, <<"u","s","e","r","n","a","m","e">>)
      domain == StrProp(node.Properties, <<"d","o","m","a","i","n">>)
      edge(kind) == [Kind |-> kind, StartID |-> ADPrincipalID(username, domainMap.kv[ToUpper(domain)]),
                     StartMatchBy |-> <<"n","a","m","e">>, EndID |-> node.ID, EndMatchBy |-> <<>>]
  IN IF ~isUser /\ ~isGroup THEN << >>
     ELSE IF name = <<>> \/ domain = <<>> THEN << >>
     ELSE IF ~Has(domainMap, ToUpper(domain)) THEN << >>
     ELSE IF isUser THEN << edge(<<"S","y","n","c","s","T","o","v","C","e","n","t","e","r","U","s","e","r">>) >>
     ELSE << edge(<<"S","y","n","c","s","T","o","v","C","e","n","t","e","r","G","r","o","u","p">>) >>

\* The sync loop of Run over the nodes of the input graph
RECURSIVE RunSyncEdges(_, _)
RunSyncEdges(nodes, domainMap) ==
  IF nodes = << >> THEN << >>
  ELSE RunSyncEdge(nodes[1], domainMap) \o RunSyncEdges(Tail(nodes), domainMap)

\* The MERGE statement syncNodes runs for node, if any: a relationship of
\* type relType from the nodes named targetName to the node
SyncNodesEdge(node, domainMap, relType) ==
  LET username == StrProp(node.Properties, <<"u","s","e","r","n","a","m","e">>)
      domain == StrProp(node.Properties, <<"d","o","m","a","i","n">>)
  IN IF username = <<>> \/ domain = <<>> THEN << >>
     ELSE IF ~Has(domainMap, ToUpper(domain)) THEN << >>
     ELSE << [Kind |-> relType, StartID |-> ADPrincipalID(username, domainMap.kv[ToUpper(domain)]),
              StartMatchBy |-> <<"n","a","m","e">>, EndID |-> node.ID, EndMatchBy |-> <<"i","d">>] >>

\* syncNodes over the nodes that carry vLabel
\* (queryErr: the query that fetches them fails, which ends syncNodes)
RECURSIVE syncNodes(_, _, _, _, _)
syncNodes(nodes, domainMap, vLabel, relType, queryErr) ==
  IF queryErr \/ nodes = << >> THEN << >>
  ELSE (IF vLabel \in Range(nodes[1].Kinds)
          THEN SyncNodesEdge(nodes[1], domainMap, relType) ELSE << >>)
       \o syncNodes(Tail(nodes), domainMap, vLabel, relType, queryErr)

(***************************************************************************)
(* SpecSync: one sync step over a drawn graph and a drawn domain listing   *)
(***************************************************************************)

\* Nodes in the drawn graph
MaxNodes == 2

\* A principal node as the collector writes it: the kind and the id follow
\* from the principal string and the group flag, name is the principal
\* string, domain and username are parsed from it
PrincipalNode(host, principal, isGroup) ==
  [Kinds |-> << FormatNodeKind(IF isGroup THEN <<"G","r","o","u","p">> ELSE <<"U","s","e","r">>) >>,
   ID |-> PrincipalID(host, principal, isGroup),
   Properties |-> PrincipalProps(principal, isGroup)]

\* The nodes of the input graph: principals written by the collector (with
\* a backslash, with an at sign, with nothing after the backslash, with no
\* domain) and a virtual machine
NodePool ==
  { PrincipalNode(ConfigHost, <<"C","O","R","P","\\","a">>, FALSE),
    PrincipalNode(ConfigHost, <<"o","p","s","@","c","o","r","p">>, TRUE),
    PrincipalNode(ConfigHost, <<"C","O","R","P","\\">>, FALSE),
    PrincipalNode(ConfigHost, <<"b","@","C","O","R","P">>, FALSE),
    PrincipalNode(ConfigHost, <<"r","o","o","t">>, FALSE),
    PrincipalNode(ConfigHost, <<"L","A","B","\\","d","e","v">>, TRUE),
    [Kinds |-> << FormatNodeKind(<<"V","M">>) >>, ID |-> CanonicalID(<<"v","m">>, ConfigHost, <<"v","m","-","1">>),
     Properties |-> MakeMap([k \in { <<"n","a","m","e">> } |-> VStr(<<"w","e","b">>)])] }

\* The graphs drawn: up to MaxNodes nodes of the pool, ids distinct
Graphs ==
  { g \in UNION { [1..n -> NodePool] : n \in 1..MaxNodes } :
      \A i, j \in 1..Len(g) : i # j => g[i].ID # g[j].ID }

\* What the domain listing may answer
Listings ==
  { [err |-> TRUE, cause |-> c, StatusCode |-> 0, Data |-> << >>] : c \in { "signing", "transport" } } \cup
  { [err |-> FALSE, cause |-> "none", StatusCode |-> 503, Data |-> << >>] } \cup
  { [err |-> FALSE, cause |-> "none", StatusCode |-> 200, Data |-> d] :
      d \in { << >>, << <<"c","o","r","p",".","l","o","c","a","l">> >>, << <<"c","o","r","p",".","l","o","c","a","l">>, <<"C","O","R","P",".","e","x","a","m","p","l","e">> >>,
              << <<"l","a","b">>, <<"C","o","r","p",".","L","o","c","a","l">> >> } }

InitSync ==
  /\ InitGraph
  /\ InitNoPure
  /\ InitLater
  /\ available \in Listings
  /\ graphData \in Graphs
  /\ DomainMap = EmptyMap
  /\ syncEdges = << >>
  /\ syncTool = "none"

\* The edges of the input graph over the nodes drawn: from each node to the
\* next and back, and the first of them once more (the file of a run over
\* the same source twice holds its edges twice)
GraphEdges(nodes) ==
  LET e(kind, i, j) == [Kind |-> kind, StartID |-> nodes[i].ID, StartMatchBy |-> << >>,
                        EndID |-> nodes[j].ID, EndMatchBy |-> << >>, Properties |-> EmptyMap]
      there == [i \in 1..(Len(nodes) - 1) |-> e(<<"v","C","e","n","t","e","r","_","C","O","N","T","A","I","N","S">>, i, i + 1)]
      back == [i \in 1..(Len(nodes) - 1) |-> e(<<"v","C","e","n","t","e","r","_","M","E","M","B","E","R","_","O","F">>, i + 1, i)]
  IN there \o back \o (IF there = << >> THEN << >> ELSE << there[1] >>)

\* graph.NewBuilder, AddRawNode and AddRawEdgeWithMatch for each element of
\* a list, and Export, as the graph store is described: nodes are held by
\* id with kinds and properties as given, an edge whose kind, start, end and
\* properties were seen before is dropped, Export returns the nodes in any
\* order and the edges in insertion order
NewBuilder == [NodesByID |-> << >>, Edges |-> << >>, EdgeKeys |-> {}]

RECURSIVE AddRawNodes(_, _)
AddRawNodes(gb, nodes) ==
  IF nodes = << >> THEN gb
  ELSE AddRawNodes([gb EXCEPT !.NodesByID = (nodes[1].ID :> nodes[1]) @@ @], Tail(nodes))

\* (the dedup key of an edge: kind, start, end and properties; a sync edge
\* is handed over with nil properties)
RECURSIVE AddRawEdges(_, _)
AddRawEdges(gb, edges) ==
  IF edges = << >> THEN gb
  ELSE LET e == edges[1]
           key == << e.Kind, e.StartID, e.EndID,
                     IF "Properties" \in DOMAIN e THEN e.Properties ELSE NilMap >>
       IN AddRawEdges(IF key \in gb.EdgeKeys THEN gb
                      ELSE [gb EXCEPT !.Edges = Append(@, e), !.EdgeKeys = @ \cup { key }],
                      Tail(edges))

\* (order: the order in which the nodes are returned)
Export(gb, order) == [Nodes |-> [i \in 1..Len(order) |-> gb.NodesByID[order[i]]], Edges |-> gb.Edges]

\* Processor.Run returning the error of GetDomainMap instead of logging it
ProcessorRun_aborting ==
  LET fetched == GetDomainMap(available)
      domainMap == IF fetched.err THEN DomainMap ELSE fetched.map
  IN /\ syncTool = "none"
     /\ DomainMap' = domainMap
     /\ \E ioErr \in { "none", "read", "write" } :
          LET added == IF ioErr = "read" \/ fetched.err THEN << >> ELSE RunSyncEdges(graphData, domainMap)
              gb == AddRawEdges(AddRawEdges(AddRawNodes(NewBuilder, graphData), GraphEdges(graphData)),
                                added)
          IN /\ syncEdges' = added
             /\ \E order \in RangeOrders(DOMAIN gb.NodesByID) :
                  syncOutput' = IF fetched.err THEN [err |-> "fetch", file |-> << >>]
                                ELSE [err |-> ioErr,
                                      file |-> IF ioErr = "none" THEN Export(gb, order) ELSE << >>]
     /\ syncTool' = "Run"
     /\ UNCHANGED << NodesByID, Edges, EdgeKeys, panicked, call, nCalls, suppliedKinds,
                     lastSupplied, edgeOrigins, resolved, pureIn, pureOut, available,
                     graphData, signVars, mainVars, memberVars, infraVars >>

\* Processor.Run with a BloodHound client: the domain map is fetched (an
\* error is logged), the input file is read and parsed (an error ends the
\* run), the builder is filled, the sync edges are handed to it, and the
\* export is written (an error ends the run)
ProcessorRun ==
  LET fetched == GetDomainMap(available)
      domainMap == IF fetched.err THEN DomainMap ELSE fetched.map
  IN /\ syncTool = "none"
     /\ DomainMap' = domainMap
     /\ \E ioErr \in { "none", "read", "write" } :
          LET added == IF ioErr = "read" THEN << >> ELSE RunSyncEdges(graphData, domainMap)
              gb == AddRawEdges(AddRawEdges(AddRawNodes(NewBuilder, graphData), GraphEdges(graphData)),
                                added)
          IN /\ syncEdges' = added
             /\ \E order \in RangeOrders(DOMAIN gb.NodesByID) :
                  syncOutput' = [err |-> ioErr,
                                 file |-> IF ioErr = "none" THEN Export(gb, order) ELSE << >>]
     /\ syncTool' = "Run"
     /\ UNCHANGED << NodesByID, Edges, EdgeKeys, panicked, call, nCalls, suppliedKinds,
                     lastSupplied, edgeOrigins, resolved, pureIn, pureOut, available,
                     graphData, signVars, mainVars, memberVars, infraVars >>

\* syncRelationships of vCenterNeo4j: users, then groups
SyncRelationships ==
  LET domainMap == getDomainMap(available)
  IN /\ syncTool = "none"
     /\ DomainMap' = domainMap
     /\ \E usersErr, groupsErr \in BOOLEAN :
          /\ syncEdges' = syncNodes(graphData, domainMap, <<"v","C","e","n","t","e","r","_","U","s","e","r">>, <<"S","y","n","c","s","T","o","v","C","e","n","t","e","r","U","s","e","r">>, usersErr)
                            \o syncNodes(graphData, domainMap, <<"v","C","e","n","t","e","r","_","G","r","o","u","p">>, <<"S","y","n","c","s","T","o","v","C","e","n","t","e","r","G","r","o","u","p">>,
                                         groupsErr)
          /\ syncOutput' = [err |-> IF usersErr \/ groupsErr THEN "query" ELSE "none", file |-> << >>]
     /\ syncTool' = "syncRelationships"
     /\ UNCHANGED << NodesByID, Edges, EdgeKeys, panicked, call, nCalls, suppliedKinds,
                     lastSupplied, edgeOrigins, resolved, pureIn, pureOut, available,
                     graphData, signVars, mainVars, memberVars, infraVars >>

NextSync == ProcessorRun \/ SyncRelationships

SpecSync == InitSync /\ [][NextSync]_vars

\* The domain names the sync step obtained
Candidates == IF available.err THEN {} ELSE Range(available.Data)

\* The domain of node is, ignoring case, the first dot-delimited label of fqdn
DomainMatches(node, fqdn) ==
  ToUpper(StrProp(node.Properties, <<"d","o","m","a","i","n">>)) = ToUpper(Split(fqdn, ".")[1])

IsUserNode(node) == <<"v","C","e","n","t","e","r","_","U","s","e","r">> \in Range(node.Kinds)

IsPrincipalNode(node) == IsUserNode(node) \/ <<"v","C","e","n","t","e","r","_","G","r","o","u","p">> \in Range(node.Kinds)

\* The sync edges that end at node
SyncEdgesTo(node) == { j \in 1..Len(syncEdges) : syncEdges[j].EndID = node.ID }

\* The sync step went over the nodes: a tool ran and the nodes of the graph
\* were read (the file by Run, both node queries by syncRelationships)
SyncStepRan == syncTool # "none" /\ syncOutput.err \notin { "read", "query" }

\* C9: once the sync step has run, every User or Group node
\* with non-empty domain and username whose domain matches the first label
\* of a candidate FQDN has exactly one sync edge, of the user kind for a User
\* and the group kind for a Group, from UPPER(username)@UPPER(fqdn) of a
\* matching candidate, joined by name, to the node's id; a node whose domain
\* matches no candidate has none.
C9_SyncEdgeForEveryMatch ==
  SyncStepRan =>
    \A i \in 1..Len(graphData) :
      LET node == graphData[i]
          username == StrProp(node.Properties, <<"u","s","e","r","n","a","m","e">>)
      IN (IsPrincipalNode(node) /\ StrProp(node.Properties, <<"d","o","m","a","i","n">>) # <<>> /\ username # <<>>)
         => IF \E f \in Candidates : DomainMatches(node, f)
              THEN /\ Cardinality(SyncEdgesTo(node)) = 1
                   /\ \A j \in SyncEdgesTo(node) :
                        /\ syncEdges[j].Kind = (IF IsUserNode(node) THEN <<"S","y","n","c","s","T","o","v","C","e","n","t","e","r","U","s","e","r">>
                                                ELSE <<"S","y","n","c","s","T","o","v","C","e","n","t","e","r","G","r","o","u","p">>)
                        /\ syncEdges[j].StartMatchBy = <<"n","a","m","e">>
                        /\ \E f \in Candidates :
                             /\ DomainMatches(node, f)
                             /\ syncEdges[j].StartID = ToUpper(username) \o << "@" >> \o ToUpper(f)
              ELSE SyncEdgesTo(node) = {}

\* C9 witness: the sync step has run over a graph holding a user and a
\* group whose domains, written in different case, match a candidate, and
\* each has its sync edge
C9_UserAndGroupSynced ==
  /\ SyncStepRan
  /\ \E i, j \in 1..Len(graphData) :
       /\ IsUserNode(graphData[i]) /\ SyncEdgesTo(graphData[i]) # {}
       /\ ~IsUserNode(graphData[j]) /\ IsPrincipalNode(graphData[j]) /\ SyncEdgesTo(graphData[j]) # {}
       /\ StrProp(graphData[i].Properties, <<"d","o","m","a","i","n">>) # StrProp(graphData[j].Properties, <<"d","o","m","a","i","n">>)

\* C10 (as claimed): once the sync step has run, no sync edge ends at a
\* principal node whose domain is empty or whose username is empty, whatever
\* its name.
C10_NoSyncEdgeWithoutUsername ==
  syncTool # "none" =>
    \A i \in 1..Len(graphData) :
      LET node == graphData[i]
      IN (IsPrincipalNode(node) /\ (\/ StrProp(node.Properties, <<"d","o","m","a","i","n">>) = <<>>
                                    \/ StrProp(node.Properties, <<"u","s","e","r","n","a","m","e">>) = <<>>))
         => SyncEdgesTo(node) = {}


(***************************************************************************)
(* bloodhound.Client: request signing                                      *)
(***************************************************************************)

\* hmac.New(sha256.New, key) fed msg and summed.  The digest is kept symbolic:
\* a value determined by the key and the message, different for different
\* pairs (SHA-256 collisions are out of reach).
HMAC(key, msg) == << "HMAC-SHA256", key, msg >>

\* base64.StdEncoding.EncodeToString, symbolic and one-to-one like the encoding
Base64(d) == << "base64", d >>

\* A number below 100 in two digits, as the layout elements 01, 02, 15, 04, 05 and 07:00 print it
TwoDigits(n) == IF n < 10 THEN << "0" >> \o Itoa(n) ELSE Itoa(n)

\* time.Now(): the instant read from the clock, carrying the location time.Local
Now_utc(instant, local) == [utc |-> instant, loc |-> 0]

Now(instant, local) == [utc |-> instant, loc |-> local]

\* Minutes since the start of the month of the instant [day, hour, min, sec]
MinuteOf(instant) == ((instant.day * 24) + instant.hour) * 60 + instant.min

\* t.Format(time.RFC3339), layout 2006-01-02T15:04:05Z07:00: the wall clock of
\* t's location, then Z for offset zero or the signed offset hh:mm.  Instants
\* are taken in May 2024, away from the ends of the month.
FormatRFC3339(t) ==
  LET wall == MinuteOf(t.utc) + t.loc
      off == IF t.loc < 0 THEN 0 - t.loc ELSE t.loc
  IN <<"2","0","2","4","-","0","5","-">> \o TwoDigits(wall \div 1440) \o << "T" >>
       \o TwoDigits((wall % 1440) \div 60) \o << ":" >> \o TwoDigits(wall % 60)
       \o << ":" >> \o TwoDigits(t.utc.sec)
       \o (IF t.loc = 0 THEN << "Z" >>
           ELSE << (IF t.loc < 0 THEN "-" ELSE "+") >>
                  \o TwoDigits(off \div 60) \o << ":" >> \o TwoDigits(off % 60))

\* timePart := ts[:13]
TimePart_whole(ts) == ts

TimePart(ts) == SubSeq(ts, 1, 13)

\* A request body: an io.Reader over data, pos bytes already read, that may
\* fail on reading.  NoBody is req.Body == nil.
NoBody == [isNil |-> TRUE, data |-> <<>>, pos |-> 0, fails |-> FALSE]

Reader(data, fails) == [isNil |-> FALSE, data |-> data, pos |-> 0, fails |-> fails]

\* io.ReadAll(r): the bytes not yet read, or an error
ReadAll(r) == [err |-> r.fails, bytes |-> SubSeq(r.data, r.pos + 1, Len(r.data))]

\* req.Body = io.NopCloser(bytes.NewBuffer(bodyBytes))
RestoreBody_consumed(bodyBytes) == [isNil |-> FALSE, data |-> bodyBytes, pos |-> Len(bodyBytes), fails |-> FALSE]

RestoreBody(bodyBytes) == [isNil |-> FALSE, data |-> bodyBytes, pos |-> 0, fails |-> FALSE]

\* Client.signRequest(req) at the time t: the error it returns, the request
\* as it leaves it, and the three digests
signRequest(c, req, t) ==
  LET ts == FormatRFC3339(t)
      uri == IF req.RawQuery # <<>> THEN req.Path \o << "?" >> \o req.RawQuery ELSE req.Path
      d1 == HMAC(c.KeySecret, req.Method \o uri)
      d2 == HMAC(d1, TimePart(ts))
      read == ReadAll(req.Body)
      d3 == IF req.Body.isNil THEN HMAC(d2, <<>>) ELSE HMAC(d2, read.bytes)
      unsigned == [err |-> TRUE, d1 |-> d1, d2 |-> << >>, d3 |-> << >>]
  IN IF Len(ts) < 13
       THEN unsigned @@ [req |-> req]
     ELSE IF ~req.Body.isNil /\ read.err
       THEN unsigned @@ [req |-> [req EXCEPT !.Body.pos = Len(req.Body.data)]]
     ELSE [err |-> FALSE, d1 |-> d1, d2 |-> d2, d3 |-> d3,
           req |-> [req EXCEPT
                      !.Body = IF req.Body.isNil THEN NoBody ELSE RestoreBody(read.bytes),
                      !.Header = [h \in (DOMAIN req.Header)
                                          \cup {"Authorization", "RequestDate", "Signature"} |->
                                    CASE h = "Authorization" -> <<"b","h","e","s","i","g","n","a","t","u","r","e"," ">> \o c.KeyID
                                      [] h = "RequestDate" -> ts
                                      [] h = "Signature" -> Base64(d3)
                                      [] OTHER -> req.Header[h]]]]

\* The bytes c.Client.Do(req) puts on the wire as the body of req
Transport(req) == IF req.Body.isNil THEN <<>> ELSE ReadAll(req.Body).bytes

MaxSigns == 2

\* The clients: key id and key secret
Clients == { [KeyID |-> <<"i","d">>, KeySecret |-> s] : s \in { <<"k","1">>, <<"k","2">> } }

\* The requests the client is handed
Requests ==
  { [Method |-> <<"G","E","T">>, Path |-> <<"/","a","p","i","/","v","2","/","x">>, RawQuery |-> q, Header |-> << >>, Body |-> NoBody] :
      q \in { <<>>, <<"q","=","1">> } } \cup
  { [Method |-> <<"P","O","S","T">>, Path |-> <<"/","a","p","i","/","v","2","/","x">>, RawQuery |-> <<>>, Header |-> << >>, Body |-> b] :
      b \in { Reader(<<>>, FALSE), Reader(<<"{","}">>, FALSE), Reader(<<"{","}">>, TRUE) } }

\* The instants the clock is read at
Instants ==
  { [day |-> 10, hour |-> 23, min |-> 0, sec |-> 5], [day |-> 10, hour |-> 23, min |-> 59, sec |-> 5],
    [day |-> 11, hour |-> 0, min |-> 0, sec |-> 5], [day |-> 10, hour |-> 9, min |-> 30, sec |-> 0] }

\* The offsets of time.Local, in minutes: New York, UTC, Berlin, Kolkata
Zones == { 0 - 300, 0, 120, 330 }

InitSign ==
  /\ InitEarlier
  /\ InitIdleExcept("sign")
  /\ zone \in Zones
  /\ signed = {}

\* Client.Do(req): sign, and send unless signing failed
Do ==
  \E c \in Clients, req \in Requests, instant \in Instants :
    LET s == signRequest(c, req, Now(instant, zone))
    IN /\ Cardinality(signed) < MaxSigns
       /\ signed' = signed \cup
            { [c |-> c, req |-> req, instant |-> instant, err |-> s.err,
               d2 |-> s.d2, d3 |-> s.d3, out |-> s.req,
               sent |-> ~s.err, wire |-> IF s.err THEN <<>> ELSE Transport(s.req)] }
       /\ UNCHANGED << earlierVars, zone, mainVars, memberVars, infraVars, syncOutput >>

NextSign == Do

SpecSign == InitSign /\ [][NextSign]_vars

\* The request URI that is signed: the path, with the query when there is one
SignedURI(req) == IF req.RawQuery # <<>> THEN req.Path \o << "?" >> \o req.RawQuery ELSE req.Path

\* The body bytes of a request as handed to Do (none for a nil body)
BodyBytes(req) == IF req.Body.isNil THEN <<>> ELSE req.Body.data

\* Two Do calls with the same secret, method, URI and body
SameSigningInputs(a, b) ==
  /\ a.c.KeySecret = b.c.KeySecret
  /\ a.req.Method = b.req.Method
  /\ SignedURI(a.req) = SignedURI(b.req)
  /\ a.req.Body.isNil = b.req.Body.isNil
  /\ BodyBytes(a.req) = BodyBytes(b.req)

\* C11: two signings with the same secret, method, path-with-query and body
\* whose timestamps agree on their first 13 characters produce the same
\* second digest and the same Signature header: the signature depends on the
\* timestamp only through those 13 characters.
C11_SignatureDependsOnHourOnly ==
  \A a, b \in signed :
    (/\ ~a.err /\ ~b.err
     /\ SameSigningInputs(a, b)
     /\ SubSeq(a.out.Header["RequestDate"], 1, 13) = SubSeq(b.out.Header["RequestDate"], 1, 13))
    => /\ a.d2 = b.d2
       /\ a.out.Header["Signature"] = b.out.Header["Signature"]

\* C11 witness: two signings of the same request under the same secret whose
\* timestamps differ, within the same hour
C11_TwoSigningsInOneHour ==
  \E a, b \in signed :
    /\ ~a.err /\ ~b.err
    /\ SameSigningInputs(a, b)
    /\ a.out.Header["RequestDate"] # b.out.Header["RequestDate"]
    /\ SubSeq(a.out.Header["RequestDate"], 1, 13) = SubSeq(b.out.Header["RequestDate"], 1, 13)
    /\ a.out.Header["Signature"] = b.out.Header["Signature"]

\* C12: a signed request that had a body is left with a readable body of
\* exactly the original bytes, the bytes the third digest was taken over, and
\* those are the bytes the transport sends; a request without a body is signed
\* too, its third digest taken over zero bytes.
C12_BodySignedIsBodySent ==
  \A r \in signed :
    ~r.err =>
      /\ r.sent
      /\ r.out.Header["Signature"] = Base64(r.d3)
      /\ IF r.req.Body.isNil
           THEN /\ r.d3 = HMAC(r.d2, <<>>)
                /\ r.out.Body.isNil
                /\ r.wire = <<>>
           ELSE /\ r.d3 = HMAC(r.d2, r.req.Body.data)
                /\ ~r.out.Body.isNil
                /\ ReadAll(r.out.Body) = [err |-> FALSE, bytes |-> r.req.Body.data]
                /\ r.wire = r.req.Body.data

\* C12 witness: a request with a non-empty body was signed and sent, and one
\* without a body was signed and sent
C12_BodyAndNoBodySigned ==
  /\ \E r \in signed : ~r.err /\ ~r.req.Body.isNil /\ r.req.Body.data # <<>> /\ r.wire = r.req.Body.data
  /\ \E r \in signed : ~r.err /\ r.req.Body.isNil /\ r.sent

\* The number a string of decimal digits writes
RECURSIVE Atoi(_)
Atoi(s) == IF s = <<>> THEN 0 ELSE 10 * Atoi(SubSeq(s, 1, Len(s) - 1)) + (Ord(s[Len(s)]) - 48)

\* time.Parse(time.RFC3339, ts) for a timestamp of May 2024: the instant it
\* denotes, in UTC minutes and seconds, and the offset it carries
ParseRFC3339(ts) ==
  LET wall == (Atoi(SubSeq(ts, 9, 10)) * 24 + Atoi(SubSeq(ts, 12, 13))) * 60 + Atoi(SubSeq(ts, 15, 16))
      off == IF ts[20] = "Z" THEN 0
             ELSE (IF ts[20] = "-" THEN 0 - 1 ELSE 1)
                    * (Atoi(SubSeq(ts, 21, 22)) * 60 + Atoi(SubSeq(ts, 24, 25)))
  IN [minute |-> wall - off, sec |-> Atoi(SubSeq(ts, 18, 19)), offset |-> off]

\* C13 (as claimed): the RequestDate header of every signed request is the
\* current time written in UTC, whatever the local time zone.
C13_RequestDateIsUTC ==
  \A r \in signed :
    ~r.err => r.out.Header["RequestDate"] = FormatRFC3339([utc |-> r.instant, loc |-> 0])

\* C13 (amended): the RequestDate header of every signed request denotes the
\* current instant, written as the wall clock of the process's local time zone
\* followed by that zone's offset (Z when the offset is zero); its first 13
\* characters are the local date and hour.
C13_RequestDateIsLocalTime ==
  \A r \in signed :
    ~r.err =>
      LET ts == r.out.Header["RequestDate"]
          wall == MinuteOf(r.instant) + zone
      IN /\ ParseRFC3339(ts) = [minute |-> MinuteOf(r.instant), sec |-> r.instant.sec, offset |-> zone]
         /\ SubSeq(ts, 1, 13) = <<"2","0","2","4","-","0","5","-">> \o TwoDigits(wall \div 1440) \o << "T" >>
                                  \o TwoDigits((wall % 1440) \div 60)

\* C13 witness: a request signed away from UTC carries a RequestDate whose
\* hour is not the UTC hour
C13_SignedAwayFromUTC ==
  \E r \in signed :
    /\ ~r.err
    /\ zone # 0
    /\ SubSeq(r.out.Header["RequestDate"], 1, 13)
         # SubSeq(FormatRFC3339([utc |-> r.instant, loc |-> 0]), 1, 13)

(***************************************************************************)
(* vCenterHoundGo main: collection loop, merge, sanitization, output       *)
(***************************************************************************)

\* unicode.IsSpace: tab, line feed, vertical tab, form feed, carriage
\* return, space, U+0085 (NEL), U+00A0 (NBSP) and, above Latin-1, the
\* White_Space characters U+1680, U+2000 to U+200A, U+2028, U+2029, U+202F,
\* U+205F and U+3000; a character a string literal cannot hold is written
\* by its code point, "(11)" or "(U+3000)"
IsSpace(c) ==
  c \in { "\t", "\n", "(11)", "\f", "\r", " ", "(U+0085)", "(U+00A0)", "(U+1680)",
          "(U+2000)", "(U+2001)", "(U+2002)", "(U+2003)", "(U+2004)", "(U+2005)", "(U+2006)",
          "(U+2007)", "(U+2008)", "(U+2009)", "(U+200A)", "(U+2028)", "(U+2029)", "(U+202F)",
          "(U+205F)", "(U+3000)" }

\* strings.TrimSpace: all leading and trailing white space removed
RECURSIVE TrimSpace(_)
TrimSpace(s) ==
  IF s # <<>> /\ IsSpace(s[1]) THEN TrimSpace(Tail(s))
  ELSE IF s # <<>> /\ IsSpace(s[Len(s)]) THEN TrimSpace(SubSeq(s, 1, Len(s) - 1))
  ELSE s

\* sanitizeValue
RECURSIVE sanitizeValue(_)
sanitizeValue(v) ==
  CASE v.t = "nil" -> VStr(<<>>)
    [] v.t = "[]interface{}" -> VList([i \in 1..Len(v.v) |-> sanitizeValue(v.v[i])])
    [] v.t \in { "[]string", "nil []string" } -> v
    [] v.t = "map[string]interface{}" ->
         VMap([v.v EXCEPT !.kv = [k \in DOMAIN v.v.kv |-> sanitizeValue(v.v.kv[k])]])
    [] v.t \in { "bool", "int", "string" } -> v
    [] OTHER -> VStr(FormatV(v))

\* sanitizeProperties: every value of the map replaced by its sanitized form
sanitizeProperties(props) ==
  [props EXCEPT !.kv = [k \in DOMAIN props.kv |-> sanitizeValue(props.kv[k])]]

\* sanitizeGraph
sanitizeGraph(output) ==
  [Nodes |-> [i \in 1..Len(output.Nodes) |->
                [output.Nodes[i] EXCEPT !.Properties = sanitizeProperties(@)]],
   Edges |-> [i \in 1..Len(output.Edges) |->
                [output.Edges[i] EXCEPT !.Properties = sanitizeProperties(@)]]]

\* The merge of one node of a source into the node of the same id already in
\* the combined store: the keys the combined node lacks are copied
MergeNode_lastWins(existing, node) ==
  [existing EXCEPT !.Properties.kv =
     [k \in (DOMAIN existing.Properties.kv) \cup (DOMAIN node.Properties.kv) |->
        IF k \in DOMAIN node.Properties.kv THEN node.Properties.kv[k]
        ELSE existing.Properties.kv[k]]]

MergeNode(existing, node) ==
  [existing EXCEPT !.Properties.kv =
     [k \in (DOMAIN existing.Properties.kv) \cup (DOMAIN node.Properties.kv) |->
        IF k \in DOMAIN existing.Properties.kv THEN existing.Properties.kv[k]
        ELSE node.Properties.kv[k]]]

\* The edges of a source appended to the combined list
MergeEdges_dedup(edges, incoming) ==
  edges \o SelectSeq(incoming, LAMBDA e : \A i \in 1..Len(edges) : edges[i] # e)

MergeEdges(edges, incoming) == edges \o incoming

\* The merge loops of main: the source store gb merged into the combined one.
\* Every node the collector writes has an allocated property map.
Merge(merged, gb) ==
  [NodesByID |-> [id \in (DOMAIN merged.NodesByID) \cup (DOMAIN gb.NodesByID) |->
                    IF id \in DOMAIN merged.NodesByID
                      THEN IF id \in DOMAIN gb.NodesByID
                             THEN MergeNode(merged.NodesByID[id], gb.NodesByID[id])
                             ELSE merged.NodesByID[id]
                      ELSE gb.NodesByID[id]],
   Edges |-> MergeEdges(merged.Edges, gb.Edges)]

\* GraphBuilder.ToOutput, the range over NodesByID visiting the ids in order
ToOutput(gb, order) ==
  [Nodes |-> [i \in 1..Len(order) |-> gb.NodesByID[order[i]]], Edges |-> gb.Edges]

\* main ends without writing when no collector connected
NothingCollected_anyFailure(conns) == Len(conns) < Len(collected)

NothingCollected(conns) == Len(conns) = 0

\* No output file
NoFile == << >>

\* The -s arguments
ServerArgs ==
  { <<"v","c">>, <<"v","c",",","v","c">>, <<"v","c",","," ","v","2">>, <<"v","2",",",",","v","c">>, <<",">>, <<"v","c",",","v","2",",","v","c">>,
    << "\t" >> \o <<"v","c",",">> \o << "\r", "\n" >>,
    <<"v","2",",">> \o << "(U+00A0)", "(11)" >> \o <<"v","c">> \o << "\f", "(U+0085)" >>,
    << "(U+3000)" >> \o <<"v","c">> \o << "(U+2003)" >> \o <<",","v","2",",">> \o << "(U+2028)" >> }

\* The stores a connected collector for host may have built
GraphsOf(host) ==
  LET root == CanonicalID(<<"f","o","l","d","e","r">>, host, <<"g","1">>)
      cl == CanonicalID(<<"c","l","u","s","t","e","r">>, host, <<"c","1">>)
      grp == PrincipalID(host, <<"o","p","s">>, TRUE)
      contains == AddEdge(NewGraphBuilder, <<"C","O","N","T","A","I","N","S">>, root, cl, NilMap, <<>>)
      perm == [Principal |-> <<"o","p","s">>, Group |-> TRUE, RoleId |-> 7, Propagate |-> TRUE]
      permProps == PermissionEdgeProps(perm, RoleInfo(7, RolesByID, PrivMap, <<>>))
      clA == MakeMap([k \in { <<"n","a","m","e">>, <<"n","u","m","C","p","u","C","o","r","e","s">> } |->
                        IF k = <<"n","a","m","e">> THEN VStr(<<"A">>) ELSE VInt16(8)])
      clB == MakeMap([k \in { <<"n","a","m","e">>, <<"m","o","i","d">> } |->
                        IF k = <<"n","a","m","e">> THEN VStr(<<"B">>) ELSE VStr(<<"c","1">>)])
  IN { [NodesByID |-> << >>, Edges |-> << >>],
       [NodesByID |-> EnsureNode(<< >>, << <<"C","l","u","s","t","e","r">> >>, cl, clA), Edges |-> contains.Edges],
       [NodesByID |-> EnsureNode(EnsureNode(<< >>, << <<"C","l","u","s","t","e","r">> >>, cl, clB),
                                 << <<"G","r","o","u","p">> >>, grp, PrincipalProps(<<"o","p","s">>, TRUE)),
        Edges |-> AddEdge(contains, <<"H","A","S","_","P","E","R","M","I","S","S","I","O","N">>, grp, cl, permProps,
                          SetToSeq(Keys(permProps))).Edges] }

InitMain ==
  /\ InitEarlier
  /\ InitIdleExcept("main")
  /\ \E arg \in ServerArgs : servers = Split(arg, ",")
  /\ pos = 1
  /\ connectors = << >>
  /\ mergedGraph = [NodesByID |-> NewGraphBuilder.NodesByID, Edges |-> NewGraphBuilder.Edges]
  /\ collected = << >>
  /\ exitCode = "running"
  /\ outFile = NoFile
  /\ logged = ""

\* One turn of the loop over servers: an empty entry is skipped; Collect fails
\* to connect and the host is left out; or Collect returns and its store is merged
CollectNext ==
  /\ exitCode = "running"
  /\ pos <= Len(servers)
  /\ pos' = pos + 1
  /\ LET host == TrimSpace(servers[pos])
     IN \/ /\ host = <<>>
           /\ UNCHANGED << connectors, mergedGraph, collected >>
        \/ /\ host # <<>>
           /\ collected' = Append(collected, [host |-> host, err |-> TRUE,
                                              gb |-> [NodesByID |-> << >>, Edges |-> << >>]])
           /\ UNCHANGED << connectors, mergedGraph >>
        \/ /\ host # <<>>
           /\ \E gb \in GraphsOf(host) :
                /\ collected' = Append(collected, [host |-> host, err |-> FALSE, gb |-> gb])
                /\ connectors' = Append(connectors, host)
                /\ mergedGraph' = Merge(mergedGraph, gb)
  /\ UNCHANGED << earlierVars, signVars, memberVars, infraVars, syncOutput, servers, exitCode, outFile, logged >>

\* After the loop: exit 1 when nothing connected; else the combined graph is
\* put out, sanitized and written, the write succeeding or not.  The nodes of
\* the output are copies that share their property maps with the nodes of
\* the combined store, and its edges are the store's edge slice, so
\* sanitizeProperties rewrites the maps of the combined store in place.
Save ==
  /\ exitCode = "running"
  /\ pos > Len(servers)
  /\ IF NothingCollected(connectors)
       THEN /\ exitCode' = "exit 1"
            /\ outFile' = NoFile
            /\ logged' = "No data collected from any vCenter"
            /\ mergedGraph' = mergedGraph
       ELSE /\ mergedGraph' =
                 [NodesByID |-> [id \in DOMAIN mergedGraph.NodesByID |->
                                   [mergedGraph.NodesByID[id] EXCEPT !.Properties = sanitizeProperties(@)]],
                  Edges |-> [i \in 1..Len(mergedGraph.Edges) |->
                               [mergedGraph.Edges[i] EXCEPT !.Properties = sanitizeProperties(@)]]]
            /\ \E order \in RangeOrders(DOMAIN mergedGraph.NodesByID), writeFails \in BOOLEAN :
              IF writeFails
                THEN /\ exitCode' = "exit 1"
                     /\ outFile' = NoFile
                     /\ logged' = "Error writing file"
                ELSE /\ exitCode' = "exit 0"
                     /\ logged' = "vCenterHoundGo collection completed successfully"
                     /\ outFile' = sanitizeGraph(ToOutput(mergedGraph, order))
  /\ UNCHANGED << earlierVars, signVars, memberVars, infraVars, syncOutput, servers, pos, connectors,
                  collected >>

NextMain == CollectNext \/ Save

SpecMain == InitMain /\ [][NextMain]_vars

\* The visited sources whose Collect returned, in order, that hold a node id
SourcesWith(id) ==
  { i \in 1..Len(collected) : ~collected[i].err /\ id \in DOMAIN collected[i].gb.NodesByID }

\* The least number of a non-empty set of numbers
Least(S) == CHOOSE i \in S : \A j \in S : i <= j

\* C14: while sources are merged (until the output is sanitized for saving),
\* in the combined graph a node held by one source only is that source's
\* node, kinds and properties unchanged; a node held by several sources has
\* the kinds of the first and, for every property key any of them has, the
\* value of the first source in order that has the key (keys the combined
\* node lacks are copied, the first source wins), for every order of sources.
\* Once the save step has sanitized the output, the same holds with every
\* value replaced by its sanitized form.
C14_MergeFirstSourceWins ==
  LET saved == exitCode # "running" /\ ~NothingCollected(connectors)
      Kept(props) == IF saved THEN sanitizeProperties(props) ELSE props
  IN /\ DOMAIN mergedGraph.NodesByID =
          UNION { DOMAIN collected[i].gb.NodesByID : i \in { j \in 1..Len(collected) : ~collected[j].err } }
     /\ \A id \in DOMAIN mergedGraph.NodesByID :
          LET node == mergedGraph.NodesByID[id]
              srcs == SourcesWith(id)
              nodeOf(i) == collected[i].gb.NodesByID[id]
          IN /\ Cardinality(srcs) = 1 =>
                  node = [nodeOf(Least(srcs)) EXCEPT !.Properties = Kept(@)]
             /\ node.ID = id
             /\ node.Kinds = nodeOf(Least(srcs)).Kinds
             /\ Keys(node.Properties) = UNION { Keys(nodeOf(i).Properties) : i \in srcs }
             /\ \A k \in Keys(node.Properties) :
                  node.Properties.kv[k] =
                    Kept(nodeOf(Least({ i \in srcs : Has(nodeOf(i).Properties, k) })).Properties).kv[k]

\* C14 witness: a node held by two sources that disagree on name, the second
\* having a key the first lacks, is merged
C14_ConflictingNodeMerged ==
  \E id \in DOMAIN mergedGraph.NodesByID :
    \E i, j \in SourcesWith(id) :
      /\ i < j
      /\ collected[i].gb.NodesByID[id].Properties.kv[<<"n","a","m","e">>]
           # collected[j].gb.NodesByID[id].Properties.kv[<<"n","a","m","e">>]
      /\ \E k \in Keys(collected[j].gb.NodesByID[id].Properties) :
           ~Has(collected[i].gb.NodesByID[id].Properties, k)
      /\ \E k \in Keys(collected[i].gb.NodesByID[id].Properties) :
           ~Has(collected[j].gb.NodesByID[id].Properties, k)

\* The edge lists of the first n visited sources whose Collect returned, one after the other
RECURSIVE EdgesOfSources(_)
EdgesOfSources(n) ==
  IF n = 0 THEN << >>
  ELSE EdgesOfSources(n - 1) \o (IF collected[n].err THEN << >> ELSE collected[n].gb.Edges)

\* C15: the combined edge list is the concatenation of the sources' edge
\* lists, each in its original order, nothing removed; the exported edges are
\* those edges, so an edge held by two sources is exported twice.
C15_EdgesConcatenated ==
  /\ mergedGraph.Edges = EdgesOfSources(Len(collected))
  /\ outFile # NoFile =>
       /\ Len(outFile.Edges) = Len(EdgesOfSources(Len(collected)))
       /\ \A i \in 1..Len(outFile.Edges) :
            LET e == EdgesOfSources(Len(collected))[i]
            IN /\ outFile.Edges[i].Kind = e.Kind
               /\ outFile.Edges[i].StartID = e.StartID
               /\ outFile.Edges[i].EndID = e.EndID
               /\ Keys(outFile.Edges[i].Properties) = Keys(e.Properties)

\* C15 witness: the written graph holds the same edge twice, once from each of
\* two sources
C15_EdgeExportedTwice ==
  /\ outFile # NoFile
  /\ \E i, j \in 1..Len(outFile.Edges) : i < j /\ outFile.Edges[i] = outFile.Edges[j]
  /\ \E a, b \in 1..Len(collected) :
       /\ a < b /\ ~collected[a].err /\ ~collected[b].err
       /\ \E x \in Range(collected[a].gb.Edges) : x \in Range(collected[b].gb.Edges)

\* The non-empty hosts among the first n entries of servers
RECURSIVE HostsAmong(_)
HostsAmong(n) ==
  IF n = 0 THEN << >>
  ELSE HostsAmong(n - 1) \o (IF TrimSpace(servers[n]) = <<>> THEN << >> ELSE << TrimSpace(servers[n]) >>)

\* C18: a source whose connection fails contributes no node and no edge and
\* does not stop the loop: every later source is still collected and merged.
\* When the run ends, with no source connected it has failed and written no
\* output; with at least one connected the graph of the connected sources is
\* written (the run failing then only if the file cannot be written).
C18_FailedSourceIsLeftOut ==
  /\ [i \in 1..Len(collected) |-> collected[i].host] = HostsAmong(pos - 1)
  /\ connectors = SelectSeq([i \in 1..Len(collected) |-> IF collected[i].err THEN <<>> ELSE collected[i].host],
                            LAMBDA h : h # <<>>)
  /\ \A i \in 1..Len(collected) :
       collected[i].err => collected[i].gb = [NodesByID |-> << >>, Edges |-> << >>]
  /\ exitCode # "running" =>
       /\ pos = Len(servers) + 1
       /\ IF \A i \in 1..Len(collected) : collected[i].err
            THEN exitCode = "exit 1" /\ outFile = NoFile /\ logged = "No data collected from any vCenter"
            ELSE \/ exitCode = "exit 1" /\ outFile = NoFile /\ logged = "Error writing file"
                 \/ /\ exitCode = "exit 0"
                    /\ outFile # NoFile
                    /\ { outFile.Nodes[i].ID : i \in 1..Len(outFile.Nodes) }
                         = UNION { DOMAIN collected[i].gb.NodesByID :
                                     i \in { j \in 1..Len(collected) : ~collected[j].err } }
                    /\ Len(outFile.Edges) = Len(EdgesOfSources(Len(collected)))

\* C18 witness: the first source failed to connect, a later one connected, and
\* the output holding the later one's nodes was written
C18_OutputDespiteFailure ==
  /\ exitCode = "exit 0"
  /\ Len(collected) >= 2
  /\ collected[1].err
  /\ \E i \in 2..Len(collected) : ~collected[i].err /\ collected[i].gb.NodesByID # << >>
  /\ outFile # NoFile /\ outFile.Nodes # << >>

\* encoding/json writes the value as null, or something in it, at any depth
RECURSIVE HasNull(_)
HasNull(v) ==
  CASE v.t \in { "nil", "nil []string" } -> TRUE
    [] v.t = "[]interface{}" -> \E i \in 1..Len(v.v) : HasNull(v.v[i])
    [] v.t = "map[string]interface{}" -> v.v.isNil \/ \E k \in DOMAIN v.v.kv : HasNull(v.v.kv[k])
    [] OTHER -> FALSE

\* C19 (as claimed): no property value of a node or edge of the written graph
\* is null, at any depth (a role without resolved privileges has empty
\* lists), and sanitizing the written graph again changes nothing.
C19_NoNullAfterSanitize ==
  outFile # NoFile =>
    /\ \A i \in 1..Len(outFile.Nodes) :
         \A k \in Keys(outFile.Nodes[i].Properties) : ~HasNull(outFile.Nodes[i].Properties.kv[k])
    /\ \A i \in 1..Len(outFile.Edges) :
         \A k \in Keys(outFile.Edges[i].Properties) : ~HasNull(outFile.Edges[i].Properties.kv[k])
    /\ sanitizeGraph(outFile) = outFile

(***************************************************************************)
(* collector.Collector: group memberships                                  *)
(***************************************************************************)

\* The permission loop of CollectPermissions on the store gb: processPermission
\* for every permission of the list, in order
RECURSIVE ProcessPermissions(_, _, _)
ProcessPermissions(gb, host, perms) ==
  IF perms = << >> THEN gb
  ELSE LET perm == Head(perms)
           r == processPermission(gb, host, perm, RolesByID, PrivMap,
                                  [err |-> FALSE, Host |-> HostsOf(perm.Entity)],
                                  SetToSeq(PermGroupSet(perm)),
                                  SetToSeq(DOMAIN PermissionEdgeProps(
                                             perm, RoleInfo(perm.RoleId, RolesByID, PrivMap, <<>>)).kv))
       IN ProcessPermissions([NodesByID |-> r.NodesByID, Edges |-> r.Edges, EdgeKeys |-> r.EdgeKeys],
                             host, Tail(perms))

\* groupsWithPermissions: the principals of the permissions flagged as groups
groupsWithPermissions_all(perms) == { perms[i].Principal : i \in 1..Len(perms) }

groupsWithPermissions(perms) ==
  { perms[i].Principal : i \in { j \in 1..Len(perms) : perms[j].Group } }

\* The two findMembers calls per domain for the group name searched, users first
RECURSIVE QueriesPerDomain_usersOnly(_, _, _)
QueriesPerDomain_usersOnly(name, parentGID, doms) ==
  IF doms = << >> THEN << >>
  ELSE << [BelongsToGroup |-> name, Domain |-> Head(doms), FindUsers |-> TRUE, parentGID |-> parentGID] >>
         \o QueriesPerDomain_usersOnly(name, parentGID, Tail(doms))

RECURSIVE QueriesPerDomain(_, _, _)
QueriesPerDomain(name, parentGID, doms) ==
  IF doms = << >> THEN << >>
  ELSE << [BelongsToGroup |-> name, Domain |-> Head(doms), FindUsers |-> TRUE, parentGID |-> parentGID],
          [BelongsToGroup |-> name, Domain |-> Head(doms), FindUsers |-> FALSE, parentGID |-> parentGID] >>
         \o QueriesPerDomain(name, parentGID, Tail(doms))

\* The findMembers calls of CollectGroupMemberships, the range over
\* groupsWithPermissions visiting the groups in order: per group the calls
\* with its principal, then those with the name after the first backslash
RECURSIVE MemberQueries(_, _, _)
MemberQueries(host, order, doms) ==
  IF order = << >> THEN << >>
  ELSE LET groupPrincipal == Head(order)
           parentGID == <<"g","r","o","u","p",":">> \o host \o <<":">> \o groupPrincipal
       IN QueriesPerDomain(groupPrincipal, parentGID, doms)
            \o (IF Contains(groupPrincipal, "\\")
                  THEN QueriesPerDomain(SplitN2(groupPrincipal, "\\")[2], parentGID, doms)
                  ELSE << >>)
            \o MemberQueries(host, Tail(order), doms)

\* The result loop of findMembers on the store gb: results that are not a
\* *types.UserSearchResult are passed over, the others get a node and a
\* MEMBER_OF edge to the group
RECURSIVE AddMembers(_, _, _, _)
AddMembers(gb, host, q, results) ==
  IF results = << >> THEN gb
  ELSE LET result == Head(results)
           parsed == Collector_parsePrincipal(result.Principal)
           id == (IF q.FindUsers THEN <<"u","s","e","r",":">> ELSE <<"g","r","o","u","p",":">>) \o host \o <<":">> \o result.Principal
           kinds == IF q.FindUsers THEN << <<"U","s","e","r">> >> ELSE << <<"G","r","o","u","p">> >>
           props == MakeMap([k \in { <<"n","a","m","e">>, <<"d","o","m","a","i","n">>, <<"u","s","e","r","n","a","m","e">>, <<"i","s","G","r","o","u","p">> } |->
                               CASE k = <<"n","a","m","e">> -> VStr(result.Principal)
                                 [] k = <<"d","o","m","a","i","n">> -> VStr(parsed[1])
                                 [] k = <<"u","s","e","r","n","a","m","e">> -> VStr(parsed[2])
                                 [] k = <<"i","s","G","r","o","u","p">> -> VBool(~q.FindUsers)])
           e == AddEdge([Edges |-> gb.Edges, EdgeKeys |-> gb.EdgeKeys], <<"M","E","M","B","E","R","_","O","F">>, id,
                        q.parentGID, NilMap, << >>)
       IN IF ~result.isUserSearchResult
            THEN AddMembers(gb, host, q, Tail(results))
            ELSE AddMembers([NodesByID |-> EnsureNode(gb.NodesByID, kinds, id, props),
                             Edges |-> e.Edges, EdgeKeys |-> e.EdgeKeys],
                            host, q, Tail(results))

\* findMembers: a failed query leaves the store alone
findMembers(gb, host, q, res) ==
  IF res.err THEN gb ELSE AddMembers(gb, host, q, res.Returnval)

MaxFailures == 2

\* What the directory answers to RetrieveUserGroups when the call succeeds
RetrieveUserGroups(q) ==
  IF q.Domain = <<"C","O","R","P">> /\ q.BelongsToGroup \in { <<"C","O","R","P","\\","o","p","s">>, <<"o","p","s">> }
    THEN IF q.FindUsers
           THEN << [isUserSearchResult |-> TRUE, Principal |-> <<"C","O","R","P","\\","b","o","b">>],
                   [isUserSearchResult |-> FALSE, Principal |-> <<"p","o","s","i","x">>] >>
           ELSE << [isUserSearchResult |-> TRUE, Principal |-> <<"C","O","R","P","\\","n","e","s","t","e","d">>] >>
    ELSE << >>

\* The permission lists of the authorization manager
MemberPerms ==
  LET p(principal, group, rid, ref) ==
        [Principal |-> principal, Group |-> group, RoleId |-> rid, Entity |-> ref, Propagate |-> TRUE]
      vm == Ref(<<"V","i","r","t","u","a","l","M","a","c","h","i","n","e">>, <<"v","m","-","1">>)
  IN { << >>,
       << p(<<"C","O","R","P","\\","o","p","s">>, TRUE, 1, vm) >>,
       << p(<<"C","O","R","P","\\","o","p","s">>, TRUE, 0 - 5, vm) >>,
       << p(<<"l","o","c","a","l">>, TRUE, 1, NilRef), p(<<"C","O","R","P","\\","a">>, FALSE, 1, vm) >>,
       << p(<<"C","O","R","P","\\","o","p","s">>, TRUE, 0 - 5, vm), p(<<"C","O","R","P","\\","o","p","s">>, TRUE, 1, vm) >>,
       << p(<<"l","o","c","a","l">>, TRUE, 1, vm), p(<<"C","O","R","P","\\","o","p","s">>, TRUE, 1, vm) >> }

\* The user directories: absent, failing to give its domain list, or giving it
UserDirectories ==
  { [isNil |-> TRUE, err |-> FALSE, DomainList |-> << >>],
    [isNil |-> FALSE, err |-> TRUE, DomainList |-> << >>] } \cup
  { [isNil |-> FALSE, err |-> FALSE, DomainList |-> d] :
      d \in { << >>, << <<"C","O","R","P">> >>, << <<"C","O","R","P">>, <<"v","s","p","h","e","r","e",".","l","o","c","a","l">> >> } }

InitMember ==
  /\ InitEarlier
  /\ InitIdleExcept("member")
  /\ authPerms \in MemberPerms
  /\ userDirectory \in UserDirectories
  /\ selectedGroups = {}
  /\ domains = << >>
  /\ pending = << >>
  /\ issued = << >>
  /\ memberPhase = "permissions"

\* Step 3 of CollectPermissions: the permissions are fetched, or the fetch
\* fails and none is processed, and each is processed
CollectPermissions ==
  /\ memberPhase = "permissions"
  /\ \E fetchFails \in BOOLEAN :
       LET perms == IF fetchFails THEN << >> ELSE authPerms
           gb == ProcessPermissions([NodesByID |-> NodesByID, Edges |-> Edges, EdgeKeys |-> EdgeKeys],
                                    ConfigHost, perms)
       IN /\ NodesByID' = gb.NodesByID
          /\ Edges' = gb.Edges
          /\ EdgeKeys' = gb.EdgeKeys
  /\ memberPhase' = "memberships"
  /\ UNCHANGED << panicked, call, nCalls, suppliedKinds, lastSupplied, edgeOrigins, resolved,
                  pureIn, pureOut, available, graphData, DomainMap, syncEdges, syncTool,
                  signVars, mainVars, authPerms, userDirectory, selectedGroups, domains,
                  pending, issued, infraVars, syncOutput >>

\* CollectGroupMemberships up to its loops: without a user directory it
\* returns; else the domain list is read (an error leaves it empty), the
\* permissions are fetched again (an error leaves none) and the groups are
\* ranged over in some order
CollectGroupMemberships ==
  /\ memberPhase = "memberships"
  /\ IF userDirectory.isNil
       THEN /\ pending' = << >>
            /\ UNCHANGED << selectedGroups, domains >>
       ELSE \E fetchFails \in BOOLEAN :
              LET perms == IF fetchFails THEN << >> ELSE authPerms
                  doms == IF userDirectory.err THEN << >> ELSE userDirectory.DomainList
              IN /\ selectedGroups' = groupsWithPermissions(perms)
                 /\ domains' = doms
                 /\ \E order \in RangeOrders(groupsWithPermissions(perms)) :
                      pending' = MemberQueries(ConfigHost, order, doms)
  /\ memberPhase' = IF pending' = << >> THEN "done" ELSE "querying"
  /\ UNCHANGED << earlierVars, signVars, mainVars, infraVars, syncOutput, authPerms, userDirectory, issued >>

\* The next findMembers call: the query fails, or its results are written
FindMembers ==
  /\ memberPhase = "querying"
  /\ \E err \in BOOLEAN :
       LET q == Head(pending)
           res == [err |-> err, Returnval |-> IF err THEN << >> ELSE RetrieveUserGroups(q)]
           gb == findMembers([NodesByID |-> NodesByID, Edges |-> Edges, EdgeKeys |-> EdgeKeys],
                             ConfigHost, q, res)
       IN /\ err => Cardinality({ i \in 1..Len(issued) : issued[i].err }) < MaxFailures
          /\ NodesByID' = gb.NodesByID
          /\ Edges' = gb.Edges
          /\ EdgeKeys' = gb.EdgeKeys
          /\ issued' = Append(issued, [q |-> q, err |-> err])
  /\ pending' = Tail(pending)
  /\ memberPhase' = IF pending' = << >> THEN "done" ELSE "querying"
  /\ UNCHANGED << panicked, call, nCalls, suppliedKinds, lastSupplied, edgeOrigins, resolved,
                  pureIn, pureOut, available, graphData, DomainMap, syncEdges, syncTool,
                  signVars, mainVars, infraVars, syncOutput, authPerms, userDirectory,
                  selectedGroups, domains >>

NextMember == CollectPermissions \/ CollectGroupMemberships \/ FindMembers

SpecMember == InitMember /\ [][NextMember]_vars

\* CollectGroupMemberships is sequential code that no other code interrupts:
\* once it is entered, its next step is taken whenever there is one
SpecMemberLive == SpecMember /\ WF_vars(CollectGroupMemberships \/ FindMembers)

\* The store holds a HAS_PERMISSION edge starting at the node id
HasPermissionEdgeFrom(id) ==
  \E j \in 1..Len(Edges) :
    Edges[j].Kind = FormatEdgeKind(<<"H","A","S","_","P","E","R","M","I","S","S","I","O","N">>) /\ Edges[j].StartID.value = id

\* C16 (as claimed): a membership query is issued only for a group principal
\* that has at least one HAS_PERMISSION edge in the store.
C16_QueriedGroupsHaveEdge ==
  \A i \in 1..Len(issued) : HasPermissionEdgeFrom(issued[i].q.parentGID)

\* C16 (amended): a membership query is issued only for a principal that the
\* permission list of the authorization manager names with the group flag,
\* whether or not any of its assignments produced an edge; the group searched
\* is that principal or its name after the backslash; a group known only as a
\* member of another is never queried.
C16_QueriedGroupsAreInPermissions ==
  /\ \A i \in 1..Len(issued) :
       \E j \in 1..Len(authPerms) :
         /\ authPerms[j].Group
         /\ issued[i].q.parentGID = PrincipalID(ConfigHost, authPerms[j].Principal, TRUE)
         /\ \/ issued[i].q.BelongsToGroup = authPerms[j].Principal
            \/ /\ Contains(authPerms[j].Principal, "\\")
               /\ issued[i].q.BelongsToGroup = SplitN2(authPerms[j].Principal, "\\")[2]
  /\ \A id \in DOMAIN NodesByID :
       (/\ FormatNodeKind(<<"G","r","o","u","p">>) \in Range(NodesByID[id].Kinds)
        /\ \A j \in 1..Len(authPerms) :
             id # PrincipalID(ConfigHost, authPerms[j].Principal, authPerms[j].Group))
       => \A i \in 1..Len(issued) : issued[i].q.parentGID # id

\* C16 witness: the queries are over; one was made for a group whose only
\* assignment was dropped, so that no permission edge starts at it, and the
\* store holds a group found as a member that no query was made for
C16_DroppedGroupWasQueried ==
  /\ memberPhase = "done"
  /\ \E i \in 1..Len(issued) :
       /\ ~issued[i].err
       /\ issued[i].q.parentGID \in DOMAIN NodesByID
       /\ ~HasPermissionEdgeFrom(issued[i].q.parentGID)
  /\ \E id \in DOMAIN NodesByID :
       /\ id = PrincipalID(ConfigHost, <<"C","O","R","P","\\","n","e","s","t","e","d">>, TRUE)
       /\ \A i \in 1..Len(issued) : issued[i].q.parentGID # id

\* The number of calls made with the query q
TimesIssued(q) == Cardinality({ i \in 1..Len(issued) : issued[i].q = q })

\* The group names CollectGroupMemberships searches for the group principal g
SearchedNames(g) == IF Contains(g, "\\") THEN { g, SplitN2(g, "\\")[2] } ELSE { g }

\* Every selected group has had each of its queries made exactly once, and no
\* other query was made
AllQueriesIssuedOnce ==
  /\ \A g \in selectedGroups : \A name \in SearchedNames(g), d \in Range(domains), fu \in BOOLEAN :
       TimesIssued([BelongsToGroup |-> name, Domain |-> d, FindUsers |-> fu,
                    parentGID |-> PrincipalID(ConfigHost, g, TRUE)]) = 1
  /\ \A i \in 1..Len(issued) :
       \E g \in selectedGroups :
         /\ issued[i].q.parentGID = PrincipalID(ConfigHost, g, TRUE)
         /\ issued[i].q.BelongsToGroup \in SearchedNames(g)
         /\ issued[i].q.Domain \in Range(domains)

\* A step in which a query was made and failed
QueryFailed == issued' # issued /\ issued'[Len(issued')].err

\* C17: the collection of memberships, once begun, comes to its end, and then every
\* selected group has had, for every directory domain, exactly one user-member
\* and one group-member query with its principal and, when the principal has
\* the form DOMAIN\name, one of each with the unqualified name; a query that
\* fails adds no node and no edge and the remaining queries are still made.
C17_EveryQueryIssuedOnce ==
  /\ (memberPhase = "memberships") ~> (memberPhase = "done")
  /\ [](memberPhase = "done" => AllQueriesIssuedOnce)
  /\ [][QueryFailed => /\ NodesByID' = NodesByID
                        /\ Edges' = Edges
                        /\ EdgeKeys' = EdgeKeys
                        /\ pending' = Tail(pending)]_vars

\* C17 witness: the queries for a qualified group over two domains are over,
\* one of them failed before the last, and members were written
C17_AllQueriesDespiteFailure ==
  /\ memberPhase = "done"
  /\ Len(domains) = 2
  /\ \E g \in selectedGroups : Contains(g, "\\")
  /\ \E i \in 1..(Len(issued) - 1) : issued[i].err
  /\ ~issued[Len(issued)].err
  /\ \E j \in 1..Len(Edges) : Edges[j].Kind = FormatEdgeKind(<<"M","E","M","B","E","R","_","O","F">>)

\* The resolutions of ComputeResource wrappers that the inventory gives exactly one host
WrapperResolutions ==
  { r \in resolved : r.ref.Type = <<"C","o","m","p","u","t","e","R","e","s","o","u","r","c","e">> /\ Len(HostsOf(r.ref)) = 1 }

\* A HAS_PERMISSION edge of the store ends at the node id
PermissionEdgeTo(id) ==
  \E j \in 1..Len(Edges) :
    Edges[j].Kind = FormatEdgeKind(<<"H","A","S","_","P","E","R","M","I","S","S","I","O","N">>) /\ Edges[j].EndID.value = id

\* C20 (as claimed): a permission on a ComputeResource wrapper that contains
\* exactly one host is attached to that host's canonical id, with the host
\* kind, never to an id built from the wrapper's own native id: the store
\* gets no node of its own for the wrapper.
C20_WrapperPermissionOnHost ==
  \A r \in WrapperResolutions :
    /\ r.kind = <<"E","S","X","i","H","o","s","t">>
    /\ r.id = CanonicalID(<<"e","s","x","i","_","h","o","s","t">>, r.host, HostsOf(r.ref)[1])
    /\ CanonicalID(<<"e","s","x","i","_","h","o","s","t">>, r.host, r.ref.Value) \notin DOMAIN NodesByID

\* C20 (amended): a permission on a ComputeResource wrapper that contains
\* exactly one host is attached, with the host kind, to that host's canonical
\* id when the wrapper's host list can be retrieved, and then no node is made
\* for the wrapper; when the retrieval fails it is attached to
\* esxi_host:{source}:{wrapper native id}, and a node of host kind with that
\* id is created.  A node with the wrapper's id exists only after such a failure.
C20_WrapperPermissionOnRetrievedHost ==
  /\ \A r \in WrapperResolutions :
       /\ r.kind = <<"E","S","X","i","H","o","s","t">>
       /\ r.id = CanonicalID(<<"e","s","x","i","_","h","o","s","t">>, r.host,
                             IF r.retr.err THEN r.ref.Value ELSE HostsOf(r.ref)[1])
       /\ r.id \in DOMAIN NodesByID
       /\ FormatNodeKind(<<"E","S","X","i","H","o","s","t">>) \in Range(NodesByID[r.id].Kinds)
       /\ PermissionEdgeTo(r.id)
  /\ \A ref \in EntityRefs :
       (/\ ref.Type = <<"C","o","m","p","u","t","e","R","e","s","o","u","r","c","e">>
        /\ Len(HostsOf(ref)) = 1
        /\ CanonicalID(<<"e","s","x","i","_","h","o","s","t">>, ConfigHost, ref.Value) \in DOMAIN NodesByID)
       => \E r \in WrapperResolutions : r.ref = ref /\ r.retr.err

\* C20 witness: a permission on the wrapper cr-1 was processed with its host
\* list retrieved; the edge ends at the node of host-9 and the wrapper has no node
C20_PermissionLandsOnHost ==
  /\ \E r \in WrapperResolutions :
       /\ ~r.retr.err
       /\ r.id = CanonicalID(<<"e","s","x","i","_","h","o","s","t">>, ConfigHost, <<"h","o","s","t","-","9">>)
       /\ r.id \in DOMAIN NodesByID
       /\ PermissionEdgeTo(r.id)
  /\ CanonicalID(<<"e","s","x","i","_","h","o","s","t">>, ConfigHost, <<"c","r","-","1">>) \notin DOMAIN NodesByID

(***************************************************************************)
(* SpecInfra: Collector.Collect on one source, the inventory traversal     *)
(* followed by CollectPermissions                                          *)
(***************************************************************************)

\* The managed objects of the vCenter, by native id, as RetrieveOne gives
\* them.  No object has a summary, configuration, guest or runtime block
\* but the datastore, whose summary is a value.
Inventory(value) ==
  LET o == [Name |-> << >>, ChildEntity |-> << >>, HostFolder |-> NilRef, VmFolder |-> NilRef,
            Datastore |-> << >>, Network |-> << >>, Host |-> << >>, Vm |-> << >>,
            ResourcePool |-> << >>,
            Summary |-> [Type |-> << >>, Capacity |-> 0, FreeSpace |-> 0, Accessible |-> FALSE,
                         Url |-> << >>]]
      ds == Ref(<<"D","a","t","a","s","t","o","r","e">>, <<"d","s","-","1">>)
      net == Ref(<<"N","e","t","w","o","r","k">>, <<"n","e","t","-","1">>)
      dvpg == Ref(<<"D","i","s","t","r","i","b","u","t","e","d","V","i","r","t","u","a","l","P","o","r","t","g","r","o","u","p">>, <<"d","v","p","g","-","1">>)
      vm == Ref(<<"V","i","r","t","u","a","l","M","a","c","h","i","n","e">>, <<"v","m","-","1">>)
  IN CASE value = <<"g","r","o","u","p","-","d","1">> ->
            [o EXCEPT !.Name = <<"D","a","t","a","c","e","n","t","e","r","s">>, !.ChildEntity = << Ref(<<"D","a","t","a","c","e","n","t","e","r">>, <<"d","c","-","1">>) >>]
       [] value = <<"d","c","-","1">> ->
            [o EXCEPT !.Name = <<"D","C">>, !.HostFolder = Ref(<<"F","o","l","d","e","r">>, <<"g","r","o","u","p","-","h","1">>),
                      !.VmFolder = Ref(<<"F","o","l","d","e","r">>, <<"g","r","o","u","p","-","v","1">>),
                      !.Datastore = << ds >>, !.Network = << net, dvpg >>]
       [] value = <<"g","r","o","u","p","-","h","1">> ->
            [o EXCEPT !.Name = <<"h","o","s","t">>,
                      !.ChildEntity = << Ref(<<"C","l","u","s","t","e","r","C","o","m","p","u","t","e","R","e","s","o","u","r","c","e">>, <<"c","l","-","1">>),
                                         Ref(<<"C","o","m","p","u","t","e","R","e","s","o","u","r","c","e">>, <<"c","r","-","1">>) >>]
       [] value = <<"c","l","-","1">> ->
            [o EXCEPT !.Name = <<"C","L">>, !.Host = << Ref(<<"H","o","s","t","S","y","s","t","e","m">>, <<"h","o","s","t","-","1">>) >>,
                      !.Datastore = << ds >>,
                      !.ResourcePool = << Ref(<<"R","e","s","o","u","r","c","e","P","o","o","l">>, <<"r","e","s","g","r","o","u","p","-","1">>) >>]
       [] value = <<"c","r","-","1">> ->
            [o EXCEPT !.Name = <<"e","s","x","9">>,
                      !.Host = [i \in 1..Len(HostsOf(Ref(<<"C","o","m","p","u","t","e","R","e","s","o","u","r","c","e">>, <<"c","r","-","1">>))) |->
                                  Ref(<<"H","o","s","t","S","y","s","t","e","m">>, HostsOf(Ref(<<"C","o","m","p","u","t","e","R","e","s","o","u","r","c","e">>, <<"c","r","-","1">>))[i])]]
       [] value = <<"h","o","s","t","-","1">> ->
            [o EXCEPT !.Name = <<"e","s","x","1">>, !.Vm = << vm >>, !.Network = << net >>]
       [] value = <<"h","o","s","t","-","9">> -> [o EXCEPT !.Name = <<"e","s","x","9">>]
       [] value = <<"g","r","o","u","p","-","v","1">> -> [o EXCEPT !.Name = <<"v","m">>, !.ChildEntity = << vm >>]
       [] value = <<"v","m","-","1">> ->
            [o EXCEPT !.Name = <<"w","e","b">>, !.Datastore = << ds >>, !.Network = << dvpg >>]
       [] value = <<"d","s","-","1">> ->
            [o EXCEPT !.Name = <<"S","A","N">>,
                      !.Summary = [Type |-> <<"V","M","F","S">>, Capacity |-> 2048, FreeSpace |-> 512,
                                   Accessible |-> TRUE, Url |-> <<"d","s",":","/","/","/","v","m","f","s","/","1","/">>]]
       [] value = <<"n","e","t","-","1">> -> [o EXCEPT !.Name = <<"V","M"," ","N","e","t","w","o","r","k">>]
       [] value = <<"d","v","p","g","-","1">> -> [o EXCEPT !.Name = <<"D","P","G">>]
       [] value = <<"r","e","s","g","r","o","u","p","-","1">> -> [o EXCEPT !.Name = <<"R","e","s","o","u","r","c","e","s">>]
       [] OTHER -> o

\* ServiceContent.RootFolder
RootFolder == Ref(<<"F","o","l","d","e","r">>, <<"g","r","o","u","p","-","d","1">>)

\* A call the traversal has still to make: a process function on ref under
\* parentID, or AddEdge(kind, parentID, end, nil)
Call(fn, ref, parentID) == [fn |-> fn, ref |-> ref, parentID |-> parentID, kind |-> << >>, end |-> << >>]

EdgeCall(kind, start, end) == [fn |-> "AddEdge", ref |-> NilRef, parentID |-> start, kind |-> kind, end |-> end]

\* The calls a loop over refs makes, one per element
Calls(fn, refs, parentID) == [i \in 1..Len(refs) |-> Call(fn, refs[i], parentID)]

\* The store gb after EnsureNode(kinds, id, props)
WithNode(gb, kinds, id, props) ==
  [gb EXCEPT !.NodesByID = EnsureNode(gb.NodesByID, kinds, id, props)]

\* The store gb after AddEdge(kind, start, end, nil)
WithEdge(gb, kind, start, end) ==
  LET added == AddEdge([Edges |-> gb.Edges, EdgeKeys |-> gb.EdgeKeys], kind, start, end, NilMap, << >>)
  IN [gb EXCEPT !.Edges = added.Edges, !.EdgeKeys = added.EdgeKeys]

\* map[string]interface{}{"name": name, "moid": moid}
NameAndMoid(name, moid) ==
  MakeMap([k \in { <<"n","a","m","e">>, <<"m","o","i","d">> } |-> IF k = <<"n","a","m","e">> THEN VStr(name) ELSE VStr(moid)])

\* A process function that stops at its retrieval error: the store as it was
\* and no further call
Returned(gb) == [gb |-> gb, calls |-> << >>]

\* CollectInfrastructure up to the loop over the root folder's children:
\* viewErr is the outcome of CreateContainerView, res that of RetrieveOne
CollectInfrastructure(gb, host, viewErr, res) ==
  LET vcenterID == <<"v","c","e","n","t","e","r",":">> \o host
      gb1 == WithNode(gb, << <<"v","C","e","n","t","e","r">> >>, vcenterID, MakeMap([k \in { <<"n","a","m","e">> } |-> VStr(host)]))
      rootID == CanonicalID(<<"f","o","l","d","e","r">>, host, getID(RootFolder))
      gb2 == WithNode(gb1, << <<"R","o","o","t","F","o","l","d","e","r">>, <<"F","o","l","d","e","r">> >>, rootID,
                      NameAndMoid(res.obj.Name, getID(RootFolder)))
      gb3 == WithEdge(gb2, <<"C","O","N","T","A","I","N","S">>, vcenterID, rootID)
      kept == SelectSeq(res.obj.ChildEntity, LAMBDA c : c.Type \in { <<"D","a","t","a","c","e","n","t","e","r">>, <<"F","o","l","d","e","r">> })
  IN IF viewErr THEN Returned(gb)
     ELSE IF res.err THEN Returned(gb1)
     ELSE [gb |-> gb3,
           calls |-> [i \in 1..Len(kept) |->
                        Call(IF kept[i].Type = <<"D","a","t","a","c","e","n","t","e","r">> THEN "processDatacenter" ELSE "processFolder",
                             kept[i], rootID)]]

\* processDatacenter: the node and its edge, then the host folder, the VM
\* folder, the datastores and the networks
processDatacenter(gb, host, ref, parentID, res) ==
  LET dcID == CanonicalID(<<"d","a","t","a","c","e","n","t","e","r">>, host, getID(ref))
      gb1 == WithNode(gb, << <<"D","a","t","a","c","e","n","t","e","r">> >>, dcID, NameAndMoid(res.obj.Name, getID(ref)))
  IN IF res.err THEN Returned(gb)
     ELSE [gb |-> WithEdge(gb1, <<"C","O","N","T","A","I","N","S">>, parentID, dcID),
           calls |-> << Call("processHostFolder", res.obj.HostFolder, dcID),
                        Call("processVMFolder", res.obj.VmFolder, dcID) >>
                     \o Calls("processDatastore", res.obj.Datastore, dcID)
                     \o Calls("processNetwork", res.obj.Network, dcID)]

\* processHostFolder: the host folder gets no node; its children are
\* processed under the datacenter
processHostFolder(gb, host, ref, parentID, res) ==
  LET fnOf(type) == CASE type = <<"F","o","l","d","e","r">> -> "processComputeFolder"
                      [] type = <<"C","l","u","s","t","e","r","C","o","m","p","u","t","e","R","e","s","o","u","r","c","e">> -> "processCluster"
                      [] type = <<"C","o","m","p","u","t","e","R","e","s","o","u","r","c","e">> -> "processComputeResource"
                      [] type = <<"H","o","s","t","S","y","s","t","e","m">> -> "processStandaloneHost"
                      [] OTHER -> "none"
      kept == SelectSeq(res.obj.ChildEntity, LAMBDA c : fnOf(c.Type) # "none")
  IN IF res.err THEN Returned(gb)
     ELSE [gb |-> gb, calls |-> [i \in 1..Len(kept) |-> Call(fnOf(kept[i].Type), kept[i], parentID)]]

\* processCluster for a cluster without summary
processCluster(gb, host, ref, parentID, res) ==
  LET clusterID == CanonicalID(<<"c","l","u","s","t","e","r">>, host, getID(ref))
      gb1 == WithNode(gb, << <<"C","l","u","s","t","e","r">> >>, clusterID, NameAndMoid(res.obj.Name, getID(ref)))
  IN IF res.err THEN Returned(gb)
     ELSE [gb |-> WithEdge(gb1, <<"C","O","N","T","A","I","N","S">>, parentID, clusterID),
           calls |-> Calls("processHost", res.obj.Host, clusterID)
                     \o Calls("processDatastore", res.obj.Datastore, << >>)
                     \o Calls("processResourcePool", res.obj.ResourcePool, clusterID)]

\* processComputeResource: the wrapper of a standalone host gets no node
processComputeResource(gb, host, ref, parentID, res) ==
  IF res.err THEN Returned(gb)
  ELSE [gb |-> gb, calls |-> Calls("processStandaloneHost", res.obj.Host, parentID)]

\* processHostCommon for a host without hardware, product and runtime summary
processHostCommon(gb, host, ref, parentID, isStandalone, res) ==
  LET hostID == CanonicalID(<<"e","s","x","i","_","h","o","s","t">>, host, getID(ref))
      props == IF isStandalone
                 THEN Put(NameAndMoid(res.obj.Name, getID(ref)), <<"i","s","S","t","a","n","d","a","l","o","n","e">>, VBool(TRUE))
                 ELSE NameAndMoid(res.obj.Name, getID(ref))
      gb1 == WithNode(gb, << <<"E","S","X","i","H","o","s","t">> >>, hostID, props)
  IN IF res.err THEN Returned(gb)
     ELSE [gb |-> WithEdge(gb1, <<"C","O","N","T","A","I","N","S">>, parentID, hostID),
           calls |-> Calls("processVM", res.obj.Vm, hostID)
                     \o Calls("processDatastore", res.obj.Datastore, << >>)
                     \o Calls("processNetwork", res.obj.Network, << >>)]

\* processVMFolder
processVMFolder(gb, host, ref, parentID, res) ==
  LET folderID == CanonicalID(<<"f","o","l","d","e","r">>, host, getID(ref))
      gb1 == WithNode(gb, << <<"F","o","l","d","e","r">> >>, folderID, NameAndMoid(res.obj.Name, getID(ref)))
      fnOf(type) == CASE type = <<"F","o","l","d","e","r">> -> "processVMFolder"
                      [] type = <<"V","i","r","t","u","a","l","M","a","c","h","i","n","e">> -> "processVM"
                      [] OTHER -> "none"
      kept == SelectSeq(res.obj.ChildEntity, LAMBDA c : fnOf(c.Type) # "none")
  IN IF res.err THEN Returned(gb)
     ELSE [gb |-> WithEdge(gb1, <<"C","O","N","T","A","I","N","S">>, parentID, folderID),
           calls |-> [i \in 1..Len(kept) |-> Call(fnOf(kept[i].Type), kept[i], folderID)]]

\* The datastore or network loop of processVM: per reference the process
\* call, then the edge from the VM to the id built from the reference
RECURSIVE UsesCalls(_, _, _, _, _, _)
UsesCalls(fn, kind, prefix, host, vmID, refs) ==
  IF refs = << >> THEN << >>
  ELSE << Call(fn, Head(refs), << >>),
          EdgeCall(kind, vmID, CanonicalID(prefix, host, getID(Head(refs)))) >>
         \o UsesCalls(fn, kind, prefix, host, vmID, Tail(refs))

\* processVM for a VM without config, guest, storage and power state
processVM(gb, host, ref, parentID, res) ==
  LET vmID == CanonicalID(<<"v","m">>, host, getID(ref))
      gb1 == WithNode(gb, << <<"V","M">> >>, vmID, NameAndMoid(res.obj.Name, getID(ref)))
  IN IF res.err THEN Returned(gb)
     ELSE [gb |-> WithEdge(gb1, <<"H","O","S","T","S">>, parentID, vmID),
           calls |-> UsesCalls("processDatastore", <<"U","S","E","S","_","D","A","T","A","S","T","O","R","E">>, <<"d","a","t","a","s","t","o","r","e">>, host, vmID,
                               res.obj.Datastore)
                     \o UsesCalls("processNetwork", <<"U","S","E","S","_","N","E","T","W","O","R","K">>, <<"n","e","t","w","o","r","k">>, host, vmID,
                                  res.obj.Network)]

\* processDatastore
processDatastore(gb, host, ref, parentID, res) ==
  LET dsID == CanonicalID(<<"d","a","t","a","s","t","o","r","e">>, host, getID(ref))
      s == res.obj.Summary
      props == MakeMap([k \in { <<"n","a","m","e">>, <<"m","o","i","d">>, <<"t","y","p","e">>, <<"c","a","p","a","c","i","t","y">>, <<"f","r","e","e","S","p","a","c","e">>,
                                <<"a","c","c","e","s","s","i","b","l","e">>, <<"u","r","l">> } |->
                          CASE k = <<"n","a","m","e">> -> VStr(res.obj.Name)
                            [] k = <<"m","o","i","d">> -> VStr(getID(ref))
                            [] k = <<"t","y","p","e">> -> VStr(s.Type)
                            [] k = <<"c","a","p","a","c","i","t","y">> -> VStr(Itoa(s.Capacity))
                            [] k = <<"f","r","e","e","S","p","a","c","e">> -> VStr(Itoa(s.FreeSpace))
                            [] k = <<"a","c","c","e","s","s","i","b","l","e">> -> VBool(s.Accessible)
                            [] k = <<"u","r","l">> -> VStr(s.Url)])
  IN IF res.err THEN Returned(gb)
     ELSE [gb |-> WithNode(gb, << <<"D","a","t","a","s","t","o","r","e">> >>, dsID, props), calls |-> << >>]

\* What RetrieveOne leaves in its destination: the object, or the zero value
\* it was declared with when the call fails
Retrieved(res) == IF res.err THEN Inventory(<< >>) ELSE res.obj

\* processNetwork: the retrieval error is discarded
processNetwork(gb, host, ref, parentID, res) ==
  LET net == Retrieved(res)
      kind == IF ref.Type = <<"D","i","s","t","r","i","b","u","t","e","d","V","i","r","t","u","a","l","P","o","r","t","g","r","o","u","p">> THEN <<"D","V","P","o","r","t","g","r","o","u","p">> ELSE <<"N","e","t","w","o","r","k">>
      netID == CanonicalID(<<"n","e","t","w","o","r","k">>, host, getID(ref))
      props == MakeMap([k \in { <<"n","a","m","e">>, <<"m","o","i","d">>, <<"t","y","p","e">>, <<"k","i","n","d">> } |->
                          CASE k = <<"n","a","m","e">> -> VStr(net.Name)
                            [] k = <<"m","o","i","d">> -> VStr(getID(ref))
                            [] k = <<"t","y","p","e">> -> VStr(ref.Type)
                            [] k = <<"k","i","n","d">> -> VStr(kind)])
  IN [gb |-> WithNode(gb, << kind >>, netID, props), calls |-> << >>]

\* processResourcePool: the retrieval error is discarded
processResourcePool(gb, host, ref, parentID, res) ==
  LET rp == Retrieved(res)
      rpID == CanonicalID(<<"r","e","s","o","u","r","c","e","_","p","o","o","l">>, host, getID(ref))
  IN [gb |-> WithNode(gb, << <<"R","e","s","o","u","r","c","e","P","o","o","l">> >>, rpID, NameAndMoid(rp.Name, getID(ref))),
      calls |-> Calls("processResourcePool", rp.ResourcePool, rpID)]

\* processFolder: a folder below the root folder
processFolder(gb, host, ref, parentID, res) ==
  LET folderID == CanonicalID(<<"f","o","l","d","e","r">>, host, getID(ref))
      gb1 == WithNode(gb, << <<"F","o","l","d","e","r">> >>, folderID, NameAndMoid(res.obj.Name, getID(ref)))
      fnOf(type) == CASE type = <<"D","a","t","a","c","e","n","t","e","r">> -> "processDatacenter"
                      [] type = <<"F","o","l","d","e","r">> -> "processFolder"
                      [] type = <<"V","i","r","t","u","a","l","M","a","c","h","i","n","e">> -> "processVM"
                      [] OTHER -> "none"
      kept == SelectSeq(res.obj.ChildEntity, LAMBDA c : fnOf(c.Type) # "none")
  IN IF res.err THEN Returned(gb)
     ELSE [gb |-> WithEdge(gb1, <<"C","O","N","T","A","I","N","S">>, parentID, folderID),
           calls |-> [i \in 1..Len(kept) |-> Call(fnOf(kept[i].Type), kept[i], folderID)]]

\* processComputeFolder: a folder below the host folder
processComputeFolder(gb, host, ref, parentID, res) ==
  LET folderID == CanonicalID(<<"f","o","l","d","e","r">>, host, getID(ref))
      gb1 == WithNode(gb, << <<"F","o","l","d","e","r">> >>, folderID, NameAndMoid(res.obj.Name, getID(ref)))
      fnOf(type) == CASE type = <<"F","o","l","d","e","r">> -> "processComputeFolder"
                      [] type = <<"C","l","u","s","t","e","r","C","o","m","p","u","t","e","R","e","s","o","u","r","c","e">> -> "processCluster"
                      [] type = <<"C","o","m","p","u","t","e","R","e","s","o","u","r","c","e">> -> "processComputeResource"
                      [] OTHER -> "none"
      kept == SelectSeq(res.obj.ChildEntity, LAMBDA c : fnOf(c.Type) # "none")
  IN IF res.err THEN Returned(gb)
     ELSE [gb |-> WithEdge(gb1, <<"C","O","N","T","A","I","N","S">>, parentID, folderID),
           calls |-> [i \in 1..Len(kept) |-> Call(fnOf(kept[i].Type), kept[i], folderID)]]

\* The call f of the traversal on the store gb, its retrieval giving res
Process(gb, host, f, res) ==
  CASE f.fn = "processFolder" -> processFolder(gb, host, f.ref, f.parentID, res)
    [] f.fn = "processDatacenter" -> processDatacenter(gb, host, f.ref, f.parentID, res)
    [] f.fn = "processHostFolder" -> processHostFolder(gb, host, f.ref, f.parentID, res)
    [] f.fn = "processComputeFolder" -> processComputeFolder(gb, host, f.ref, f.parentID, res)
    [] f.fn = "processCluster" -> processCluster(gb, host, f.ref, f.parentID, res)
    [] f.fn = "processComputeResource" -> processComputeResource(gb, host, f.ref, f.parentID, res)
    [] f.fn = "processStandaloneHost" -> processHostCommon(gb, host, f.ref, f.parentID, TRUE, res)
    [] f.fn = "processHost" -> processHostCommon(gb, host, f.ref, f.parentID, FALSE, res)
    [] f.fn = "processVMFolder" -> processVMFolder(gb, host, f.ref, f.parentID, res)
    [] f.fn = "processVM" -> processVM(gb, host, f.ref, f.parentID, res)
    [] f.fn = "processDatastore" -> processDatastore(gb, host, f.ref, f.parentID, res)
    [] f.fn = "processNetwork" -> processNetwork(gb, host, f.ref, f.parentID, res)
    [] f.fn = "processResourcePool" -> processResourcePool(gb, host, f.ref, f.parentID, res)
    [] f.fn = "AddEdge" -> Returned(WithEdge(gb, f.kind, f.parentID, f.end))

\* authManager.PrivilegeList and authManager.RoleList, in the order received
PrivilegeList == << <<"P","1">>, <<"P","2">> >>

RoleList == << 1, 0 - 5 >>

\* Step 1 of CollectPermissions: a Privilege node per privilege
RECURSIVE PrivilegeNodes(_, _, _, _)
PrivilegeNodes(gb, host, privilegeList, privMap) ==
  IF privilegeList = << >> THEN gb
  ELSE LET pid == Head(privilegeList)
           props == MakeMap([k \in { <<"p","r","i","v","I","d">>, <<"n","a","m","e">>, <<"g","r","o","u","p">> } |->
                               CASE k = <<"p","r","i","v","I","d">> -> VStr(pid)
                                 [] k = <<"n","a","m","e">> -> VStr(privMap[pid].Name)
                                 [] k = <<"g","r","o","u","p">> -> VStr(privMap[pid].PrivGroupName)])
       IN PrivilegeNodes(WithNode(gb, << <<"P","r","i","v","i","l","e","g","e">> >>, CanonicalID(<<"p","r","i","v","i","l","e","g","e">>, host, pid), props),
                         host, Tail(privilegeList), privMap)

\* The privilege loop of step 2: a HAS_PRIVILEGE edge per privilege found
RECURSIVE PrivilegeEdges(_, _, _, _, _)
PrivilegeEdges(gb, host, roleID, privilege, privMap) ==
  IF privilege = << >> THEN gb
  ELSE PrivilegeEdges(IF Head(privilege) \in DOMAIN privMap
                        THEN WithEdge(gb, <<"H","A","S","_","P","R","I","V","I","L","E","G","E">>, roleID,
                                      CanonicalID(<<"p","r","i","v","i","l","e","g","e">>, host, Head(privilege)))
                        ELSE gb,
                      host, roleID, Tail(privilege), privMap)

\* pgList of step 2, the range over privGroups visiting it in gorder
RolePrivilegeGroups(gorder) == gorder

\* Step 2 of CollectPermissions: per role its edges, then its Role node;
\* gorders gives per role id the order of the range over privGroups
RECURSIVE RoleNodes(_, _, _, _, _, _)
RoleNodes(gb, host, roleList, roles, privMap, gorders) ==
  IF roleList = << >> THEN gb
  ELSE LET rid == Head(roleList)
           role == roles[rid]
           roleID == CanonicalID(<<"r","o","l","e">>, host, Itoa(rid))
           gb1 == PrivilegeEdges(gb, host, roleID, role.Privilege, privMap)
           props == MakeMap([k \in { <<"r","o","l","e","I","d">>, <<"n","a","m","e">>, <<"p","r","i","v","i","l","e","g","e","C","o","u","n","t">>, <<"p","r","i","v","i","l","e","g","e","G","r","o","u","p","s">> } |->
                               CASE k = <<"r","o","l","e","I","d">> -> VInt(rid)
                                 [] k = <<"n","a","m","e">> -> VStr(role.Name)
                                 [] k = <<"p","r","i","v","i","l","e","g","e","C","o","u","n","t">> -> VInt(Len(role.Privilege))
                                 [] k = <<"p","r","i","v","i","l","e","g","e","G","r","o","u","p","s">> -> VStrs(RolePrivilegeGroups(gorders[rid]))])
       IN RoleNodes(WithNode(gb1, << <<"R","o","l","e">> >>, roleID, props), host, Tail(roleList), roles,
                    privMap, gorders)

\* The permission lists RetrieveAllPermissions may return
InfraPerms ==
  LET p(principal, rid, type, value) ==
        [Principal |-> principal, Group |-> FALSE, RoleId |-> rid, Entity |-> Ref(type, value),
         Propagate |-> TRUE]
      a == <<"C","O","R","P","\\","a">>
      b == <<"C","O","R","P","\\","b">>
  IN { << p(a, 1, <<"D","a","t","a","c","e","n","t","e","r">>, <<"d","c","-","1">>), p(a, 1, <<"C","l","u","s","t","e","r","C","o","m","p","u","t","e","R","e","s","o","u","r","c","e">>, <<"c","l","-","1">>),
          p(a, 1, <<"H","o","s","t","S","y","s","t","e","m">>, <<"h","o","s","t","-","1">>), p(a, 1, <<"V","i","r","t","u","a","l","M","a","c","h","i","n","e">>, <<"v","m","-","1">>),
          p(a, 1, <<"F","o","l","d","e","r">>, <<"g","r","o","u","p","-","v","1">>), p(a, 1, <<"F","o","l","d","e","r">>, <<"g","r","o","u","p","-","d","1">>) >>,
       << p(a, 1, <<"R","e","s","o","u","r","c","e","P","o","o","l">>, <<"r","e","s","g","r","o","u","p","-","1">>), p(a, 1, <<"D","a","t","a","s","t","o","r","e">>, <<"d","s","-","1">>),
          p(a, 1, <<"N","e","t","w","o","r","k">>, <<"n","e","t","-","1">>), p(a, 1, <<"D","i","s","t","r","i","b","u","t","e","d","V","i","r","t","u","a","l","P","o","r","t","g","r","o","u","p">>, <<"d","v","p","g","-","1">>) >>,
       << p(a, 1, <<"C","o","m","p","u","t","e","R","e","s","o","u","r","c","e">>, <<"c","r","-","1">>), p(b, 7, <<"H","o","s","t","S","y","s","t","e","m">>, <<"h","o","s","t","-","9">>),
          p(b, 1, <<"C","o","m","p","u","t","e","R","e","s","o","u","r","c","e">>, <<"c","r","-","1">>) >>,
       << p(a, 0 - 5, <<"V","i","r","t","u","a","l","M","a","c","h","i","n","e">>, <<"v","m","-","1">>), p(b, 1, <<"V","i","r","t","u","a","l","M","a","c","h","i","n","e">>, <<"v","m","-","1">>),
          p(a, 1, <<"V","i","r","t","u","a","l","M","a","c","h","i","n","e">>, <<"v","m","-","1">>) >> }

MaxRetrievalFailures == 1

\* The objects whose retrieval failed so far in the traversal
Failed == { visits[i].ref : i \in { j \in 1..Len(visits) : visits[j].err } }

\* A retrieval of ref may fail when one of ref failed before, or when fewer
\* than MaxRetrievalFailures objects have failed
MayFail(ref) == ref \in Failed \/ Cardinality(Failed) < MaxRetrievalFailures

InitInfra ==
  /\ InitEarlier
  /\ InitIdleExcept("infra")
  /\ work = << >>
  /\ visits = << >>
  /\ infraPhase = "infrastructure"
  /\ permsLeft = << >>

\* The phase after a step of the traversal that leaves the calls todo
AfterTraversal(todo) == IF todo = << >> THEN "permissions" ELSE "traversal"

\* CollectInfrastructure is entered: the view is or is not created, the root
\* folder is or is not retrieved
EnterInfrastructure ==
  /\ infraPhase = "infrastructure"
  /\ \E viewErr \in BOOLEAN, err \in BOOLEAN :
       LET res == [err |-> err, obj |-> Inventory(getID(RootFolder))]
           r == CollectInfrastructure([NodesByID |-> NodesByID, Edges |-> Edges, EdgeKeys |-> EdgeKeys],
                                      ConfigHost, viewErr, res)
       IN /\ viewErr => ~err
          /\ NodesByID' = r.gb.NodesByID
          /\ Edges' = r.gb.Edges
          /\ EdgeKeys' = r.gb.EdgeKeys
          /\ work' = r.calls
          /\ visits' = IF viewErr THEN visits
                       ELSE Append(visits, [fn |-> "CollectInfrastructure", ref |-> RootFolder, err |-> err])
          /\ infraPhase' = AfterTraversal(r.calls)
  /\ UNCHANGED << panicked, call, nCalls, suppliedKinds, lastSupplied, edgeOrigins, resolved,
                  pureIn, pureOut, available, graphData, DomainMap, syncEdges, syncTool,
                  signVars, mainVars, memberVars, permsLeft, syncOutput >>

\* The next call of the traversal is made: its retrieval succeeds or fails
Traverse ==
  /\ infraPhase = "traversal"
  /\ \E err \in BOOLEAN :
       LET f == Head(work)
           res == [err |-> err, obj |-> Inventory(getID(f.ref))]
           r == Process([NodesByID |-> NodesByID, Edges |-> Edges, EdgeKeys |-> EdgeKeys],
                        ConfigHost, f, res)
       IN /\ err => (f.fn # "AddEdge" /\ MayFail(f.ref))
          /\ NodesByID' = r.gb.NodesByID
          /\ Edges' = r.gb.Edges
          /\ EdgeKeys' = r.gb.EdgeKeys
          /\ work' = r.calls \o Tail(work)
          /\ visits' = IF f.fn = "AddEdge" THEN visits
                       ELSE Append(visits, [fn |-> f.fn, ref |-> f.ref, err |-> err])
          /\ infraPhase' = AfterTraversal(r.calls \o Tail(work))
  /\ UNCHANGED << panicked, call, nCalls, suppliedKinds, lastSupplied, edgeOrigins, resolved,
                  pureIn, pureOut, available, graphData, DomainMap, syncEdges, syncTool,
                  signVars, mainVars, memberVars, permsLeft, syncOutput >>

\* CollectPermissions up to its permission loop: without authorization
\* manager, or when its lists cannot be retrieved, it returns; else the
\* privilege and role nodes are written and the permissions are fetched (an
\* error leaves none)
EnterPermissions ==
  /\ infraPhase = "permissions"
  /\ \E noManager \in BOOLEAN, err \in BOOLEAN, fetchFails \in BOOLEAN, perms \in InfraPerms,
        gorders \in [DOMAIN RolesByID -> UNION { RangeOrders(GroupSet(RolesByID[rid].Privilege, PrivMap)) :
                                                   rid \in DOMAIN RolesByID }] :
       LET gb == [NodesByID |-> NodesByID, Edges |-> Edges, EdgeKeys |-> EdgeKeys]
           gb1 == PrivilegeNodes(gb, ConfigHost, PrivilegeList, PrivMap)
           gb2 == RoleNodes(gb1, ConfigHost, RoleList, RolesByID, PrivMap, gorders)
           stops == noManager \/ err
           after == IF stops THEN gb ELSE gb2
       IN /\ \A rid \in DOMAIN RolesByID :
               gorders[rid] \in RangeOrders(GroupSet(RolesByID[rid].Privilege, PrivMap))
          /\ noManager => ~err
          /\ stops => ~fetchFails
          /\ (stops \/ fetchFails) => perms = CHOOSE l \in InfraPerms : TRUE
          /\ NodesByID' = after.NodesByID
          /\ Edges' = after.Edges
          /\ EdgeKeys' = after.EdgeKeys
          /\ permsLeft' = IF stops \/ fetchFails THEN << >> ELSE perms
          /\ call' = [op |-> "CollectPermissions", outcome |-> IF stops THEN "error" ELSE "roles"]
          /\ infraPhase' = IF permsLeft' = << >> THEN "done" ELSE "processing"
  /\ UNCHANGED << panicked, nCalls, suppliedKinds, lastSupplied, edgeOrigins, resolved,
                  pureIn, pureOut, available, graphData, DomainMap, syncEdges, syncTool,
                  signVars, mainVars, memberVars, work, visits, syncOutput >>

\* The permission loop of CollectPermissions processes its next permission
NextPermission ==
  /\ infraPhase = "processing"
  /\ LET perm == Head(permsLeft)
     IN \E retr \in Retrievals(perm.Entity), gorder \in RangeOrders(PermGroupSet(perm)),
           porder \in SortedRangeOrders(DOMAIN PermissionEdgeProps(perm, RoleInfo(perm.RoleId, RolesByID, PrivMap, <<>>)).kv) :
          LET r == processPermission([NodesByID |-> NodesByID, Edges |-> Edges, EdgeKeys |-> EdgeKeys],
                                     ConfigHost, perm, RolesByID, PrivMap, retr, gorder, porder)
              entity == getEntityKindAndID(ConfigHost, perm.Entity, retr)
          IN /\ NodesByID' = r.NodesByID
             /\ Edges' = r.Edges
             /\ EdgeKeys' = r.EdgeKeys
             /\ call' = [op |-> "processPermission", outcome |-> r.outcome, addEdge |-> r.addEdge,
                         edgesBefore |-> Len(Edges), perm |-> perm,
                         entity |-> entity[2], existed |-> entity[2] \in DOMAIN NodesByID]
             /\ resolved' = IF r.outcome = "edge"
                              THEN resolved \cup { [host |-> ConfigHost, ref |-> perm.Entity, retr |-> retr,
                                                    kind |-> entity[1], id |-> entity[2]] }
                              ELSE resolved
  /\ permsLeft' = Tail(permsLeft)
  /\ infraPhase' = IF permsLeft' = << >> THEN "done" ELSE "processing"
  /\ UNCHANGED << panicked, nCalls, suppliedKinds, lastSupplied, edgeOrigins,
                  pureIn, pureOut, available, graphData, DomainMap, syncEdges, syncTool,
                  signVars, mainVars, memberVars, work, visits, syncOutput >>

NextInfra == EnterInfrastructure \/ Traverse \/ EnterPermissions \/ NextPermission

SpecInfra == InitInfra /\ [][NextInfra]_vars

(***************************************************************************)
(* Claims on the traversal and the permissions of one source (SpecInfra)  *)
(***************************************************************************)

\* The value of property key of node, or the nil interface when it has none
PropertyOf(node, key) ==
  IF ~node.Properties.isNil /\ Has(node.Properties, key) THEN node.Properties.kv[key] ELSE VNil

\* C21: once an entity node exists, no permission assignment targeting it
\* changes its name property; the permission resolver creates the node only
\* when it does not exist yet, and then with name and moid both equal to the
\* native id of the assignment's target.
C21_PermissionKeepsName ==
  [][(infraPhase = "processing" /\ call'.outcome = "edge") =>
       LET id == call'.entity
           target == Head(permsLeft).Entity
       IN /\ id \in DOMAIN NodesByID'
          /\ id \in DOMAIN NodesByID =>
               PropertyOf(NodesByID'[id], <<"n","a","m","e">>) = PropertyOf(NodesByID[id], <<"n","a","m","e">>)
          /\ id \notin DOMAIN NodesByID =>
               /\ PropertyOf(NodesByID'[id], <<"n","a","m","e">>) = VStr(getID(target))
               /\ PropertyOf(NodesByID'[id], <<"m","o","i","d">>) = VStr(getID(target))
          /\ \A other \in DOMAIN NodesByID :
               PropertyOf(NodesByID'[other], <<"n","a","m","e">>) = PropertyOf(NodesByID[other], <<"n","a","m","e">>)]_vars

\* C21 witness: two assignments on the traversed VM vm-1 have been processed
\* and the node still has the name the traversal retrieved
C21_NamedNodeAfterPermissions ==
  /\ infraPhase = "done"
  /\ call.op = "processPermission"
  /\ call.existed
  /\ Cardinality({ j \in 1..Len(Edges) :
                     /\ Edges[j].Kind = FormatEdgeKind(<<"H","A","S","_","P","E","R","M","I","S","S","I","O","N">>)
                     /\ Edges[j].EndID.value = CanonicalID(<<"v","m">>, ConfigHost, <<"v","m","-","1">>) }) = 2
  /\ PropertyOf(NodesByID[CanonicalID(<<"v","m">>, ConfigHost, <<"v","m","-","1">>)], <<"n","a","m","e">>) = VStr(<<"w","e","b">>)

\* C22: when the target entity node already exists, processing a permission
\* assignment changes the value of none of its existing properties; the moid
\* the traversal recorded keeps its value, also for a compute-resource
\* wrapper resolved to the node of its host.
C22_PermissionKeepsProperties ==
  [][(infraPhase = "processing" /\ call'.outcome = "edge" /\ call'.existed) =>
       LET id == call'.entity
       IN \A key \in Keys(NodesByID[id].Properties) :
            PropertyOf(NodesByID'[id], key) = PropertyOf(NodesByID[id], key)]_vars

\* The id of the node the traversal call fn writes for ref, << >> when the
\* call writes none
TraversedID(fn, host, ref) ==
  CASE fn \in { "CollectInfrastructure", "processFolder", "processComputeFolder", "processVMFolder" } ->
         CanonicalID(<<"f","o","l","d","e","r">>, host, getID(ref))
    [] fn = "processDatacenter" -> CanonicalID(<<"d","a","t","a","c","e","n","t","e","r">>, host, getID(ref))
    [] fn = "processCluster" -> CanonicalID(<<"c","l","u","s","t","e","r">>, host, getID(ref))
    [] fn \in { "processHost", "processStandaloneHost" } -> CanonicalID(<<"e","s","x","i","_","h","o","s","t">>, host, getID(ref))
    [] fn = "processVM" -> CanonicalID(<<"v","m">>, host, getID(ref))
    [] fn = "processDatastore" -> CanonicalID(<<"d","a","t","a","s","t","o","r","e">>, host, getID(ref))
    [] fn = "processNetwork" -> CanonicalID(<<"n","e","t","w","o","r","k">>, host, getID(ref))
    [] fn = "processResourcePool" -> CanonicalID(<<"r","e","s","o","u","r","c","e","_","p","o","o","l">>, host, getID(ref))
    [] OTHER -> << >>

\* C23: once a node's name was set from a successful retrieval, no later
\* visit of the same object whose retrieval fails replaces it: the node keeps
\* the retrieved name.
C23_RetrievedNameKept ==
  \A i \in 1..Len(visits) :
    LET id == TraversedID(visits[i].fn, ConfigHost, visits[i].ref)
    IN (~visits[i].err /\ id # << >>) =>
         /\ id \in DOMAIN NodesByID
         /\ PropertyOf(NodesByID[id], <<"n","a","m","e">>) = VStr(Inventory(getID(visits[i].ref)).Name)

\* The HAS_PERMISSION edges of the store
PermissionEdges == { j \in 1..Len(Edges) : Edges[j].Kind = FormatEdgeKind(<<"H","A","S","_","P","E","R","M","I","S","S","I","O","N">>) }

\* C24: on every HAS_PERMISSION edge privilegeIds is the role's full ordered
\* list of privilege ids, privilegeNames has one entry per privilege id in
\* the same order, the display name when the id is in the privilege table
\* and the raw id otherwise, and privilegeCount is the length of privilegeIds.
C24_PrivilegeListsMatchRole ==
  \A j \in PermissionEdges :
    LET p == Edges[j].Properties.kv
        rid == p[<<"r","o","l","e","I","d">>].v
        ids == p[<<"p","r","i","v","i","l","e","g","e","I","d","s">>].v
        names == p[<<"p","r","i","v","i","l","e","g","e","N","a","m","e","s">>].v
    IN /\ ids = (IF rid \in DOMAIN RolesByID THEN RolesByID[rid].Privilege ELSE << >>)
       /\ Len(names) = Len(ids)
       /\ \A i \in 1..Len(ids) :
            names[i] = (IF ids[i] \in DOMAIN PrivMap THEN PrivMap[ids[i]].Name ELSE ids[i])
       /\ p[<<"p","r","i","v","i","l","e","g","e","C","o","u","n","t">>] = VInt(Len(ids))

\* C24 witness: an edge of role Admin, whose third privilege P9 is not in
\* the privilege table, carries the names Browse, Power, P9
C24_EdgeWithUnknownPrivilege ==
  \E j \in PermissionEdges :
    /\ Edges[j].Properties.kv[<<"p","r","i","v","i","l","e","g","e","I","d","s">>] = VStrs(<< <<"P","2">>, <<"P","1">>, <<"P","9">> >>)
    /\ Edges[j].Properties.kv[<<"p","r","i","v","i","l","e","g","e","N","a","m","e","s">>] = VStrs(<< <<"B","r","o","w","s","e">>, <<"P","o","w","e","r">>, <<"P","9">> >>)
    /\ Edges[j].Properties.kv[<<"p","r","i","v","i","l","e","g","e","C","o","u","n","t">>] = VInt(3)

\* The privilege-group lists the store holds: those of the HAS_PERMISSION
\* edges and those of the Role nodes
PrivilegeGroupLists ==
  { Edges[j].Properties.kv[<<"p","r","i","v","i","l","e","g","e","G","r","o","u","p","s">>].v : j \in PermissionEdges }
  \cup { NodesByID[id].Properties.kv[<<"p","r","i","v","i","l","e","g","e","G","r","o","u","p","s">>].v :
           id \in { n \in DOMAIN NodesByID : FormatNodeKind(<<"R","o","l","e">>) \in Range(NodesByID[n].Kinds) } }

\* C25: every privilege-group list written to the graph, on HAS_PERMISSION
\* edges and on Role nodes alike, is duplicate-free and sorted
\* lexicographically, whatever the iteration order of the underlying set.
C25_PrivilegeGroupsSorted ==
  \A l \in PrivilegeGroupLists :
    /\ Cardinality(Range(l)) = Len(l)
    /\ SortStrings(l) = l

(***************************************************************************)
(* Claims on the sync step when the domain listing fails or is ambiguous   *)
(***************************************************************************)

\* C26: when fetching the domain list fails (signing error, transport error
\* or a status other than 200), Processor.Run hands no sync edge to the graph
\* and still writes the output; the run ends in error only when the input
\* cannot be read or the output cannot be written, and the graph written has
\* exactly the nodes and the edges of the input graph (every node once, in
\* some order; every edge of the input and no other, none of a sync kind).
C26_FetchFailureKeepsGraph ==
  (syncTool = "Run" /\ GetDomainMap(available).err) =>
    /\ syncEdges = << >>
    /\ syncOutput.err \in { "none", "read", "write" }
    /\ syncOutput.err = "none" =>
         /\ Len(syncOutput.file.Nodes) = Len(graphData)
         /\ Range(syncOutput.file.Nodes) = Range(graphData)
         /\ Range(syncOutput.file.Edges) = Range(GraphEdges(graphData))
         /\ \A j \in 1..Len(syncOutput.file.Edges) :
              syncOutput.file.Edges[j].Kind \notin { <<"S","y","n","c","s","T","o","v","C","e","n","t","e","r","U","s","e","r">>, <<"S","y","n","c","s","T","o","v","C","e","n","t","e","r","G","r","o","u","p">> }
    /\ syncOutput.err # "none" => syncOutput.file = << >>

\* C26 witness: the listing answered with status 503, the input holds the
\* user CORP\a and a group that a reachable listing would match, joined by
\* edges, and the output was written with both nodes and the input's edges
C26_OutputWrittenAfterBadStatus ==
  /\ syncTool = "Run"
  /\ ~available.err
  /\ available.StatusCode = 503
  /\ Len(graphData) = 2
  /\ graphData[1].ID = PrincipalID(ConfigHost, <<"C","O","R","P","\\","a">>, FALSE)
  /\ syncOutput.err = "none"
  /\ Len(syncOutput.file.Nodes) = 2
  /\ Len(syncOutput.file.Edges) = 2

(***************************************************************************)
(* SpecKey: AddEdge called with arguments whose dedup keys may coincide    *)
(***************************************************************************)

MaxKeyCalls == 2

\* Arguments of AddEdge: ids that contain the separator of the key, values
\* that contain the separators of the properties key, and values of
\* different type or list structure that the %v verb prints alike
KeyEdges ==
  LET e(start, end, props) == [kind |-> <<"M","E","M","B","E","R","_","O","F">>, start |-> start, end |-> end, props |-> props]
      one(v) == MakeMap([k \in { <<"p">> } |-> v])
      a == <<"u","s","e","r",":","v","c",":","a">>
      g == <<"g","r","o","u","p",":","v","c",":","g">>
  IN { e(a, g, EmptyMap),
       e(<<"u","s","e","r",":","v","c",":","a",":","g","r","o","u","p">>, <<"v","c",":","g">>, EmptyMap),
       e(<<"u","s","e","r",":","v","c",":","b">>, g, EmptyMap),
       e(a, g, one(VStr(<<"1">>))),
       e(a, g, one(VInt(1))),
       e(a, g, one(VStr(<<"2">>))),
       e(a, g, one(VStrs(<< <<"x"," ","y">> >>))),
       e(a, g, one(VStrs(<< <<"x">>, <<"y">> >>))),
       e(a, g, one(VStr(<<"[","x"," ","y","]">>))),
       e(a, g, one(VStr(<<"s","|","q",":","t">>))),
       e(a, g, MakeMap([k \in { <<"p">>, <<"q">> } |-> IF k = <<"p">> THEN VStr(<<"s">>) ELSE VStr(<<"t">>)])),
       e(a, g, MakeMap([k \in { <<"p">>, <<"q">> } |-> IF k = <<"p">> THEN VStr(<<"s">>) ELSE VStr(<<"u">>)])) }

InitKey == InitGraph /\ InitNoPure /\ InitNoSync /\ InitLater

\* A caller invokes gb.AddEdge(kind, start, end, props)
KeyAddEdge ==
  \E e \in KeyEdges :
    \E order \in SortedRangeOrders(Keys(e.props)) :
      LET added == AddEdge([Edges |-> Edges, EdgeKeys |-> EdgeKeys],
                           e.kind, e.start, e.end, e.props, order)
      IN /\ nCalls < MaxKeyCalls
         /\ Edges' = added.Edges
         /\ EdgeKeys' = added.EdgeKeys
         /\ edgeOrigins' = OriginsAfter(added.Edges, e.kind)
         /\ call' = [op |-> "AddEdge", outcome |-> "edge", addEdge |-> << e >>,
                     edgesBefore |-> Len(Edges)]
         /\ nCalls' = nCalls + 1
         /\ UNCHANGED << NodesByID, panicked, suppliedKinds, lastSupplied, resolved,
                         pureIn, pureOut, available, graphData, DomainMap, syncEdges,
                         syncTool, laterVars >>

SpecKey == InitKey /\ [][KeyAddEdge]_vars

\* The arguments (kind, start, end, properties) that the stored edge i was
\* added with
EdgeIdentity(i) ==
  [kind |-> edgeOrigins[i], start |-> Edges[i].StartID.value, end |-> Edges[i].EndID.value,
   props |-> Edges[i].Properties]

\* C27: the dedup key is injective on edge identity: an AddEdge call whose
\* (kind, start, end, properties) differs in some component from those of
\* every stored edge is not treated as a duplicate and appends its edge,
\* also when ids contain ':', when values contain '|' or ':', and when
\* values differ only in type or list structure.
C27_DistinctEdgesBothStored ==
  [][(nCalls' = nCalls + 1 /\ call'.op = "AddEdge") =>
       LET e == call'.addEdge[1]
       IN (\A i \in 1..Len(Edges) : EdgeIdentity(i) # e) => Len(Edges') = Len(Edges) + 1]_vars

\* C28: after any run of the collection of one source, with retrievals or
\* whole phases failing, the start id and the end id of every edge of the
\* store are ids of nodes of the store.
C28_EdgeEndsAreNodes ==
  infraPhase = "done" =>
    \A j \in 1..Len(Edges) :
      /\ Edges[j].StartID.value \in DOMAIN NodesByID
      /\ Edges[j].EndID.value \in DOMAIN NodesByID

\* C29: for every inventory object the traversal turned into a node, the id
\* the permission resolver computes for a permission on that object is the
\* id the traversal gave the node, so the HAS_PERMISSION edge ends at the
\* traversed node and no second node stands for the object.
C29_ResolverMatchesTraversal ==
  \A i \in 1..Len(visits) : \A r \in resolved :
    LET id == TraversedID(visits[i].fn, ConfigHost, visits[i].ref)
    IN (~visits[i].err /\ id # << >> /\ r.ref = visits[i].ref) => r.id = id

\* C30: once the sync step has run, a principal with non-empty name, domain
\* and username has a sync edge from UPPER(username)@UPPER(fqdn) for every
\* candidate FQDN whose first label equals its domain ignoring case; two
\* candidates sharing the first label give two edges, none is dropped.
C30_SyncEdgePerCandidate ==
  SyncStepRan =>
    \A i \in 1..Len(graphData) : \A f \in Candidates :
      LET node == graphData[i]
          username == StrProp(node.Properties, <<"u","s","e","r","n","a","m","e">>)
      IN (/\ IsPrincipalNode(node)
          /\ StrProp(node.Properties, <<"n","a","m","e">>) # <<>>
          /\ StrProp(node.Properties, <<"d","o","m","a","i","n">>) # <<>>
          /\ username # <<>>
          /\ DomainMatches(node, f))
         => \E j \in SyncEdgesTo(node) :
              syncEdges[j].StartID = ToUpper(username) \o << "@" >> \o ToUpper(f)
====
